---- MODULE Spec2Model ----
(***************************************************************************)
(* Billboard ortho-quad rewrite engine of SSSV_Recomp                      *)
(* (src/src/game/trophy_collision_patch.cpp).                              *)
(*                                                                         *)
(* Representation of machine values:                                       *)
(*  - a gpr holding a 32-bit address is the int32 value the code keeps     *)
(*    (vram32 sign-extends), so 0x80000000 is -2147483648;                 *)
(*  - an uint32 hash is the pair <<high 16 bits, low 16 bits>>;            *)
(*  - a float is an exact fraction <<n, d>> with d > 0, or NaN = <<0,0>>,  *)
(*    or an infinity <<1,0>> / <<-1,0>>; arithmetic on finite values is    *)
(*    exact (the input sets keep every value away from a rounding          *)
(*    boundary), arithmetic with an infinity or a NaN follows IEEE 754.    *)
(***************************************************************************)
EXTENDS Integers, Sequences, FiniteSets, TLC

(***************************************************************************)
(* Float arithmetic on exact fractions.                                    *)
(***************************************************************************)
Abs(n) == IF n < 0 THEN -n ELSE n

Sign(n) == IF n < 0 THEN -1 ELSE IF n > 0 THEN 1 ELSE 0

RECURSIVE Gcd(_, _)
Gcd(a, b) == IF b = 0 THEN a ELSE Gcd(b, a % b)

Norm(n, d) == LET g == Gcd(Abs(n), d) IN <<n \div g, d \div g>>

NaN == <<0, 0>>

F(n) == <<n, 1>>

Frac(n, d) == Norm(n, d)

IsFinite(a) == a[2] > 0

IsNaN(a) == a = NaN

IsInf(a) == a[2] = 0 /\ a[1] # 0

\* inf + finite = inf, inf + inf = inf, inf - inf = NaN.
FAdd(a, b) == IF IsNaN(a) \/ IsNaN(b) THEN NaN
              ELSE IF IsInf(a) THEN (IF IsInf(b) /\ b # a THEN NaN ELSE a)
              ELSE IF IsInf(b) THEN b
              ELSE Norm(a[1] * b[2] + b[1] * a[2], a[2] * b[2])

FNeg(a) == <<-a[1], a[2]>>

FSub(a, b) == FAdd(a, FNeg(b))

\* inf * 0 = NaN, inf * x = inf with the sign of the product.
FMul(a, b) == IF IsNaN(a) \/ IsNaN(b) THEN NaN
              ELSE IF IsInf(a) \/ IsInf(b) THEN <<Sign(a[1]) * Sign(b[1]), 0>>
              ELSE Norm(a[1] * b[1], a[2] * b[2])

\* inf / inf = NaN, x / inf = 0, inf / x = inf, x / 0 = inf, 0 / 0 = NaN.
FDiv(a, b) == IF IsNaN(a) \/ IsNaN(b) THEN NaN
              ELSE IF IsInf(a) THEN (IF IsInf(b) THEN NaN
                                     ELSE <<a[1] * (IF b[1] < 0 THEN -1 ELSE 1), 0>>)
              ELSE IF IsInf(b) THEN F(0)
              ELSE IF b[1] = 0 THEN <<Sign(a[1]), 0>>
              ELSE Norm(Sign(b[1]) * a[1] * b[2], a[2] * Abs(b[1]))

\* Ordered comparisons: false with a NaN on either side.
FLt(a, b) == /\ ~IsNaN(a) /\ ~IsNaN(b)
             /\ IF IsInf(a) /\ IsInf(b) THEN a[1] < b[1]
                ELSE a[1] * b[2] < b[1] * a[2]

FLe(a, b) == /\ ~IsNaN(a) /\ ~IsNaN(b)
             /\ IF IsInf(a) /\ IsInf(b) THEN a[1] <= b[1]
                ELSE a[1] * b[2] <= b[1] * a[2]

FGt(a, b) == FLt(b, a)

FGe(a, b) == FLe(b, a)

FAbs(a) == <<Abs(a[1]), a[2]>>

\* std::clamp(v, lo, hi) and std::min(a, b) as <algorithm> defines them.
FClamp(v, lo, hi) == IF FLt(v, lo) THEN lo ELSE IF FLt(hi, v) THEN hi ELSE v

FMin(a, b) == IF FLt(b, a) THEN b ELSE a

\* std::lround: to nearest, halfway cases away from zero.
LRound(a) == Sign(a[1]) * ((2 * Abs(a[1]) + a[2]) \div (2 * a[2]))

IClamp(v, lo, hi) == IF v < lo THEN lo ELSE IF hi < v THEN hi ELSE v

clamp_i16(value) == IClamp(LRound(value), -32768, 32767)

(***************************************************************************)
(* 32-bit unsigned arithmetic on <<hi16, lo16>>.                           *)
(***************************************************************************)
RECURSIVE BitXor(_, _)
BitXor(a, b) == IF a = 0 THEN b ELSE IF b = 0 THEN a
                ELSE ((a + b) % 2) + 2 * BitXor(a \div 2, b \div 2)

\* static_cast<uint32_t> of an int32.
U32(v) == <<(v \div 65536) % 65536, v % 65536>>

\* static_cast<uint16_t> of an int16, widened to uint32.
U16(v) == <<0, v % 65536>>

Xor32(a, b) == <<BitXor(a[1], b[1]), BitXor(a[2], b[2])>>

\* h * 16777619 (0x01000193 = 2^24 + 403) modulo 2^32.
MulPrime32(h) ==
    LET low == h[2] * 403
    IN <<(h[1] * 403 + (low \div 65536) + (h[2] % 256) * 256) % 65536, low % 65536>>

hash_u32(hash, value) == MulPrime32(Xor32(hash, value))

\* hash == 0 ? 1u : hash
\* Faulty variant: the mixed value is returned as it is.
ZeroRemap_None(hash) == hash

ZeroRemap(hash) == IF hash = <<0, 0>> THEN <<0, 1>> ELSE hash

\* Faulty variant: the salt is not mixed in.
billboard_group_id_NoSalt(x, y, z, w, h, s, salt) ==
    LET h0 == <<33052, 40389>>
        h1 == hash_u32(h0, U32(x))
        h2 == hash_u32(h1, U32(y))
        h3 == hash_u32(h2, U32(z))
        h4 == hash_u32(h3, U16(w))
        h5 == hash_u32(h4, U16(h))
        h6 == hash_u32(h5, U32(s))
    IN ZeroRemap(h6)

billboard_group_id(x, y, z, w, h, s, salt) ==
    LET h0 == <<33052, 40389>>   \* 2166136261 = 0x811C9DC5
        h1 == hash_u32(h0, U32(x))
        h2 == hash_u32(h1, U32(y))
        h3 == hash_u32(h2, U32(z))
        h4 == hash_u32(h3, U16(w))
        h5 == hash_u32(h4, U16(h))
        h6 == hash_u32(h5, U32(s))
    IN ZeroRemap(Xor32(h6, salt))

(***************************************************************************)
(* Program constants.                                                      *)
(***************************************************************************)
K0BASE == -2147483647 - 1            \* 0x80000000 as int32

BILLBOARD_POOL_VRAM == -2138046464   \* 0x80900000 as int32

BILLBOARD_POOL_SLOTS == 8192

BILLBOARD_SLOT_BYTES == 16

RDRAM_SIZE_BYTES == 8388608          \* 0x00800000

kBehindCameraZ == F(-3)

kMatrixBytes == 64                   \* sizeof(float) * 16

kVertexBytes == 96                   \* sizeof(Rt64VertexExV1) * 4

kEmittedCmds == 34

GfxCommandBytes == 8                 \* sizeof(GfxCommand)

kEmittedBytes == kEmittedCmds * GfxCommandBytes

RecencyWindow == 300

\* ADD32 of the recompiler runtime: 32-bit add, sign-extended.  Every sum
\* the model forms stays inside the int32 range.
ADD32(a, b) == a + b

\* Defined for addresses with bit 31 set (KSEG0/KSEG1), where the int32
\* subtraction of the source does not overflow.
vram_to_phys_u32(vram_addr) == (vram_addr + 2147483647) + 1

(***************************************************************************)
(* Matrices: 16 floats, index r*4+c of the source is r*4+c+1 here.         *)
(***************************************************************************)
write_identity ==
    [i \in 1..16 |-> IF i \in {1, 6, 11, 16} THEN F(1) ELSE F(0)]

write_ortho(left, right, bottom, top, near_plane, far_plane) ==
    LET inv_rl == FDiv(F(1), FSub(right, left))
        inv_tb == FDiv(F(1), FSub(top, bottom))
        inv_fn == FDiv(F(1), FSub(far_plane, near_plane))
    IN [i \in 1..16 |->
         CASE i = 1  -> FMul(F(2), inv_rl)
           [] i = 6  -> FMul(F(2), inv_tb)
           [] i = 11 -> FMul(F(-2), inv_fn)
           [] i = 13 -> FMul(FNeg(FAdd(right, left)), inv_rl)
           [] i = 14 -> FMul(FNeg(FAdd(top, bottom)), inv_tb)
           [] i = 15 -> FMul(FNeg(FAdd(far_plane, near_plane)), inv_fn)
           [] OTHER  -> write_identity[i]]

(***************************************************************************)
(* BillboardConfig and the per-site configurations the hooks build.        *)
(***************************************************************************)
BillboardConfig ==
    [hash_salt |-> <<29681, 31744>>,        \* 0x73F17C00
     scale_clamp_min |-> F(0), scale_clamp_max |-> F(16383),
     dual_scale |-> FALSE, geom_half_h |-> 0, y_top_mul |-> F(1),
     y_bottom_fixed |-> F(0), screen_wrap |-> FALSE, offset_clamp |-> 0,
     hash_includes_scale |-> TRUE, hash_coord_shift |-> 0]

\* stack: the draw call's stack image (half_h at +0x14, flags at +0x20/+0x24).
SiteConfig(site, stack) ==
    CASE site = "6c5e44" ->
           [BillboardConfig EXCEPT !.hash_salt = <<27742, 17408>>,   \* 0x6C5E4400
                                   !.scale_clamp_min = F(4),
                                   !.scale_clamp_max = F(15),
                                   !.y_bottom_fixed = F(2)]
      [] site = "73f17c" -> BillboardConfig
      [] site = "73f800" ->
           LET c == [BillboardConfig EXCEPT !.hash_salt = <<29688, 0>>,  \* 0x73F80000
                                            !.hash_includes_scale = FALSE,
                                            !.hash_coord_shift = 18]
           IN IF stack.half_h > 32
              THEN [c EXCEPT !.geom_half_h = stack.half_h - 32, !.y_top_mul = F(3)]
              ELSE c
      [] site = "740094" ->
           [BillboardConfig EXCEPT !.hash_salt = <<29696, 37888>>,   \* 0x74009400
                                   !.dual_scale = TRUE,
                                   !.hash_includes_scale = FALSE]
      [] site = "740820" ->
           [BillboardConfig EXCEPT !.hash_salt = <<29704, 8192>>,    \* 0x74082000
                                   !.dual_scale = TRUE,
                                   !.screen_wrap = (stack.arg20 % 256 # 0),
                                   !.offset_clamp = stack.arg24]

(***************************************************************************)
(* Scratch allocator (BillboardAllocator s_alloc).                         *)
(***************************************************************************)
SlotsNeeded(bytes_needed) ==
    (bytes_needed + (BILLBOARD_SLOT_BYTES - 1)) \div BILLBOARD_SLOT_BYTES

\* Faulty variant: the slots are handed out but used_slots is not advanced.
allocate_billboard_data_NoAdvance(used_slots, bytes_needed, out_addr) ==
    LET slots_needed == SlotsNeeded(bytes_needed)
    IN IF (used_slots + slots_needed) > BILLBOARD_POOL_SLOTS
       THEN [ok |-> FALSE, out_addr |-> out_addr, used_slots |-> used_slots]
       ELSE [ok |-> TRUE,
             out_addr |-> BILLBOARD_POOL_VRAM + used_slots * BILLBOARD_SLOT_BYTES,
             used_slots |-> used_slots]

\* Faulty variant: the capacity comparison is off by one.
allocate_billboard_data_OffByOne(used_slots, bytes_needed, out_addr) ==
    LET slots_needed == SlotsNeeded(bytes_needed)
    IN IF (used_slots + slots_needed) >= BILLBOARD_POOL_SLOTS
       THEN [ok |-> FALSE, out_addr |-> out_addr, used_slots |-> used_slots]
       ELSE [ok |-> TRUE,
             out_addr |-> BILLBOARD_POOL_VRAM + used_slots * BILLBOARD_SLOT_BYTES,
             used_slots |-> used_slots + slots_needed]

\* Returns the bool result, the caller's out_addr and s_alloc.used_slots.
allocate_billboard_data(used_slots, bytes_needed, out_addr) ==
    LET slots_needed == SlotsNeeded(bytes_needed)
    IN IF (used_slots + slots_needed) > BILLBOARD_POOL_SLOTS
       THEN [ok |-> FALSE, out_addr |-> out_addr, used_slots |-> used_slots]
       ELSE [ok |-> TRUE,
             out_addr |-> BILLBOARD_POOL_VRAM + used_slots * BILLBOARD_SLOT_BYTES,
             used_slots |-> used_slots + slots_needed]

\* Faulty variant: the reset forgets to store the new token.
FrameReset_TokenNotStored(alloc, frame_count, dl_state) ==
    IF alloc.dl_state # dl_state
    THEN [alloc |-> [alloc EXCEPT !.used_slots = 0,
                                  !.matrices_cached = FALSE, !.vp_cached = FALSE],
          frame_count |-> frame_count + 1]
    ELSE [alloc |-> alloc, frame_count |-> frame_count]

\* Faulty variant: the reset keeps the cached matrices.
FrameReset_KeepsMatrices(alloc, frame_count, dl_state) ==
    IF alloc.dl_state # dl_state
    THEN [alloc |-> [alloc EXCEPT !.dl_state = dl_state, !.used_slots = 0,
                                  !.vp_cached = FALSE],
          frame_count |-> frame_count + 1]
    ELSE [alloc |-> alloc, frame_count |-> frame_count]

\* "Reset our extended RDRAM allocator on new frame (dl_state change)".
FrameReset(alloc, frame_count, dl_state) ==
    IF alloc.dl_state # dl_state
    THEN [alloc |-> [alloc EXCEPT !.dl_state = dl_state, !.used_slots = 0,
                                  !.matrices_cached = FALSE, !.vp_cached = FALSE],
          frame_count |-> frame_count + 1]
    ELSE [alloc |-> alloc, frame_count |-> frame_count]

\* Faulty variant: the cached pair is reused whatever the screen size.
CacheHit_IgnoresScreen(alloc, screen_w, screen_h) == alloc.matrices_cached

CacheHit(alloc, screen_w, screen_h) ==
    alloc.matrices_cached /\ alloc.screen_w = screen_w /\ alloc.screen_h = screen_h

\* Faulty variant: the pre-check asks for the vertices only.
NeededBytes_VerticesOnly(cache_hit) == kVertexBytes

NeededBytes(cache_hit) ==
    IF cache_hit THEN kVertexBytes ELSE (2 * kMatrixBytes) + kVertexBytes

\* Faulty variant: no early capacity check.
EarlyCapacityFail_Never(alloc, cache_hit) == FALSE

\* The early capacity check.
EarlyCapacityFail(alloc, cache_hit) ==
    (alloc.used_slots + SlotsNeeded(NeededBytes(cache_hit))) > BILLBOARD_POOL_SLOTS

\* Faulty variant: the block is read on every call.
FillViewProj_EveryCall(alloc, vp_in_memory) ==
    [alloc EXCEPT !.vp_mtx = vp_in_memory, !.vp_cached = TRUE]

\* View-projection cache fill: 16 floats read at dl_state + 0x38A10.
FillViewProj(alloc, vp_in_memory) ==
    IF ~alloc.vp_cached
    THEN [alloc EXCEPT !.vp_mtx = vp_in_memory, !.vp_cached = TRUE]
    ELSE alloc

(***************************************************************************)
(* Interpolation cache (g_prev_quads, g_quad_stamp).                       *)
(***************************************************************************)
\* Faulty variant: an entry exactly RecencyWindow calls old is not recent.
Recent_Strict(stamp_now, stamp_stored) == (stamp_now - stamp_stored) < RecencyWindow

Recent(stamp_now, stamp_stored) == (stamp_now - stamp_stored) <= RecencyWindow

\* The "previous" corners: the stored ones if recent and the signature
\* matches, else the current ones.
PrevCorners(quads, group_id, stamp_now, q, cur) ==
    IF group_id \in DOMAIN quads
    THEN LET pq == quads[group_id]
             recent == Recent(stamp_now, pq.stamp)
             sig_ok == pq.sig_x = q[1] /\ pq.sig_y = q[2] /\ pq.sig_z = q[3]
         IN IF recent /\ sig_ok THEN [x |-> pq.x, y |-> pq.y] ELSE cur
    ELSE cur

\* Faulty variant: an entry that exists is kept as it is (insert-only).
UpdateCache_InsertOnly(quads, group_id, stamp_now, q, cur) ==
    [k \in DOMAIN quads \cup {group_id} |->
        IF k \in DOMAIN quads THEN quads[k]
        ELSE [x |-> cur.x, y |-> cur.y, sig_x |-> q[1], sig_y |-> q[2],
              sig_z |-> q[3], stamp |-> stamp_now]]

\* Faulty variant: the entries older than the recency window are dropped.
UpdateCache_DropsStale(quads, group_id, stamp_now, q, cur) ==
    [k \in {j \in DOMAIN quads : stamp_now - quads[j].stamp <= 300} \cup {group_id} |->
        IF k = group_id
        THEN [x |-> cur.x, y |-> cur.y, sig_x |-> q[1], sig_y |-> q[2],
              sig_z |-> q[3], stamp |-> stamp_now]
        ELSE quads[k]]

UpdateCache(quads, group_id, stamp_now, q, cur) ==
    [k \in DOMAIN quads \cup {group_id} |->
        IF k = group_id
        THEN [x |-> cur.x, y |-> cur.y, sig_x |-> q[1], sig_y |-> q[2],
              sig_z |-> q[3], stamp |-> stamp_now]
        ELSE quads[k]]

(***************************************************************************)
(* Display-list cursor.                                                    *)
(***************************************************************************)
\* Faulty variant: the physical offset is not compared with the RDRAM size.
try_get_gfx_ptr_NoRangeCheck(gdl_value) ==
    IF gdl_value = 0
    THEN [ok |-> FALSE, gdl_vram |-> 0, gdl_phys |-> 0, capacity_bytes |-> 0]
    ELSE LET phys == vram_to_phys_u32(gdl_value)
         IN [ok |-> TRUE, gdl_vram |-> gdl_value, gdl_phys |-> phys,
             capacity_bytes |-> IF phys >= RDRAM_SIZE_BYTES THEN kEmittedBytes
                                ELSE RDRAM_SIZE_BYTES - phys]

try_get_gfx_ptr(gdl_value) ==
    IF gdl_value = 0
    THEN [ok |-> FALSE, gdl_vram |-> 0, gdl_phys |-> 0, capacity_bytes |-> 0]
    ELSE LET phys == vram_to_phys_u32(gdl_value)
         IN IF phys >= RDRAM_SIZE_BYTES
            THEN [ok |-> FALSE, gdl_vram |-> 0, gdl_phys |-> 0, capacity_bytes |-> 0]
            ELSE [ok |-> TRUE, gdl_vram |-> gdl_value, gdl_phys |-> phys,
                  capacity_bytes |-> RDRAM_SIZE_BYTES - phys]

CapacityFail(capacity_bytes) == capacity_bytes < kEmittedBytes

\* The command records in emission order; n is what the source adds to
\* cmd after the record (cmd++ or cmd += 2).
EmittedCommands(prim_depth, proj_mtx_addr, view_mtx_addr, group_id, verts_addr) ==
    << [op |-> "SETPRIMDEPTH",            a |-> <<prim_depth>>,        n |-> 1],
       [op |-> "gEXEnable",               a |-> <<>>,                  n |-> 1],
       [op |-> "gEXSetRDRAMExtended",     a |-> <<1>>,                 n |-> 1],
       [op |-> "gEXPushOtherMode",        a |-> <<>>,                  n |-> 1],
       [op |-> "SETOTHERMODE_H_TP_PERSP", a |-> <<>>,                  n |-> 1],
       [op |-> "gEXPushProjectionMatrix", a |-> <<>>,                  n |-> 1],
       [op |-> "gEXMatrixFloat",          a |-> <<proj_mtx_addr, "LOAD_PROJ">>, n |-> 2],
       [op |-> "gEXMatrixFloat",          a |-> <<view_mtx_addr, "PUSH_LOAD_MODELVIEW">>, n |-> 2],
       [op |-> "gEXSetProjMatrixFloat",   a |-> <<proj_mtx_addr>>,     n |-> 1],
       [op |-> "gEXSetViewMatrixFloat",   a |-> <<view_mtx_addr>>,     n |-> 1],
       [op |-> "gEXMatrixGroup",          a |-> <<group_id, "PUSH">>,  n |-> 2],
       [op |-> "gEXVertex",               a |-> <<verts_addr, 4, 0>>,  n |-> 2],
       [op |-> "TRI2",                    a |-> <<0, 1, 3, 0, 3, 2>>,  n |-> 1],
       [op |-> "TRI2",                    a |-> <<0, 3, 1, 0, 2, 3>>,  n |-> 1],
       [op |-> "POPMTX",                  a |-> <<>>,                  n |-> 1],
       [op |-> "gEXPopMatrixGroup",       a |-> <<0>>,                 n |-> 1],
       [op |-> "gEXPopProjectionMatrix",  a |-> <<>>,                  n |-> 1],
       [op |-> "gEXSetProjMatrixFloat",   a |-> <<view_mtx_addr>>,     n |-> 1],
       [op |-> "gEXSetViewMatrixFloat",   a |-> <<view_mtx_addr>>,     n |-> 1],
       [op |-> "gEXSetRDRAMExtended",     a |-> <<0>>,                 n |-> 1],
       [op |-> "gEXPopOtherMode",         a |-> <<>>,                  n |-> 1] >>

\* One entry per 8-byte GfxCommand the cursor passes over.
RECURSIVE CommandWords(_)
CommandWords(cmds) ==
    IF cmds = <<>> THEN <<>>
    ELSE LET c == Head(cmds)
         IN [k \in 1..c.n |-> [op |-> c.op, a |-> c.a, word |-> k]]
            \o CommandWords(Tail(cmds))

\* The records stored at gfx_mem + 8*(k-1), k = 1..Len(words).
WriteCommands(mem_image, phys, words) ==
    LET at == {phys + GfxCommandBytes * (k - 1) : k \in 1..Len(words)}
    IN [o \in DOMAIN mem_image \cup at |->
          IF o \in at THEN words[((o - phys) \div GfxCommandBytes) + 1]
          ELSE mem_image[o]]

\* Faulty variant: the cursor slot is not written back.
advance_gfx_ptr_Stuck(gdl_vram, written) == gdl_vram

\* new_gdl = ADD32(wctx.gdl_vram, written)
advance_gfx_ptr(gdl_vram, written) == ADD32(gdl_vram, written)

(***************************************************************************)
(* rewrite_billboard_ortho_quad.                                           *)
(*   st : the process-wide state and the memory the engine writes          *)
(*        [s_alloc, frame_count, quads, stamp, gdl, gfx_mem, pool_mem]     *)
(*   cfg: the BillboardConfig of the calling hook                          *)
(*   m  : the memory image and registers the call reads                    *)
(* The result carries the new state, the outcome, the RewriteTrace and     *)
(* what the call did (reads, corners, allocation, words written).          *)
(***************************************************************************)
RewriteTrace ==
    [world_x |-> 0, world_y |-> 0, world_z |-> 0, half_w |-> 0, half_h |-> 0,
     scale |-> 0, screen_w |-> 0, screen_h |-> 0, cam_z |-> F(0), clip_w |-> F(0),
     sprite_scale |-> F(0), xl |-> F(0), yl |-> F(0), xh |-> F(0), yh |-> F(0),
     group_id |-> <<0, 0>>]

NoCorners == [x |-> <<0, 0, 0, 0>>, y |-> <<0, 0, 0, 0>>]

NoAlloc == [addr |-> 0, bytes |-> 0, slots |-> 0]

M(vp, r, c) == vp[r * 4 + c + 1]

\* Faulty variant: the quotient is rounded toward zero.
ShiftRight_TowardZero(v, s) ==
    IF v < 0 THEN -((-v) \div (2 ^ s)) ELSE v \div (2 ^ s)

\* v >> s on an int32 (arithmetic shift).
ShiftRight(v, s) == v \div (2 ^ s)

IMax(a, b) == IF a < b THEN b ELSE a

\* An iteration of a wrap loop that leaves the value as it was.
Stuck(v, step) == FAdd(v, step) = v

\* while (v >= sw4) v -= sw4; the value when the condition fails, or the
\* value at which the loop no longer makes progress.
RECURSIVE WrapDown(_, _)
WrapDown(v, sw4) ==
    IF FGe(v, sw4) /\ ~Stuck(v, FNeg(sw4)) THEN WrapDown(FSub(v, sw4), sw4) ELSE v

\* while (v < 0) v += sw4;
RECURSIVE WrapUp(_, _)
WrapUp(v, sw4) ==
    IF FLt(v, F(0)) /\ ~Stuck(v, sw4) THEN WrapUp(FAdd(v, sw4), sw4) ELSE v

\* One of the two loops never leaves: its condition holds at a value that
\* an iteration does not change.
WrapLoopsForever(center_x, sw4) ==
    \/ FGe(WrapDown(center_x, sw4), sw4)
    \/ FLt(WrapUp(WrapDown(center_x, sw4), sw4), F(0))

Vertex(x0, y0, px, py, s0, t0) ==
    [y |-> y0, x |-> x0, flag |-> 0, z |-> 0, t |-> t0, s |-> s0,
     a |-> 255, b |-> 255, g |-> 255, r |-> 255,
     yp |-> py, xp |-> px, pad |-> 0, zp |-> 0]

Store(mem_image, addr, value) ==
    [k \in DOMAIN mem_image \cup {addr} |-> IF k = addr THEN value ELSE mem_image[k]]

\* Faulty variant: the second scale is never looked at.
InvalidArgs_IgnoresSecondScale(cfg, half_w, half_h, scale, scale_y_raw) ==
    (half_w <= 0) \/ (half_h <= 0) \/ (scale <= 0)

\* Gate 1: the argument check.
InvalidArgs(cfg, half_w, half_h, scale, scale_y_raw) ==
    (half_w <= 0) \/ (half_h <= 0) \/ (scale <= 0)
    \/ (cfg.dual_scale /\ (scale_y_raw <= 0))

InvalidScreen(screen_w, screen_h) == (screen_w <= 0) \/ (screen_h <= 0)

\* Row r of the view-projection matrix applied to (x, y, z, 1).
ProjectRow(vp, r, x, y, z) ==
    FAdd(FAdd(FAdd(M(vp, r, 3), FMul(M(vp, r, 2), z)), FMul(M(vp, r, 1), y)),
         FMul(M(vp, r, 0), x))

CamZ(vp, x, y, z) == ProjectRow(vp, 2, x, y, z)

\* Faulty variant: written as a positive comparison, which lets NaN through.
BehindCamera_Greater(cam_z) == FGt(cam_z, kBehindCameraZ)

BehindCamera(cam_z) == ~FLe(cam_z, kBehindCameraZ)

ClipW(vp, cam_z) == FDiv(FAdd(FMul(M(vp, 3, 2), cam_z), M(vp, 3, 3)), FNeg(cam_z))

InvalidClipW(clip_w) == ~FGt(clip_w, F(0))

InvalidFov(fov_y) == ~IsFinite(fov_y) \/ FLt(FAbs(fov_y), Frac(1, 10000))

\* (raw * 33 / fov) * 32 / -cam_z, clamped to the configured range.
SpriteScale(cfg, raw_scale, fov_y, cam_z) ==
    FClamp(FDiv(FMul(FDiv(FMul(F(raw_scale), F(33)), fov_y), F(32)), FNeg(cam_z)),
           cfg.scale_clamp_min, cfg.scale_clamp_max)

InvalidSpriteScale(sprite_scale_x, sprite_scale_y) ==
    ~FGt(sprite_scale_x, F(0)) \/ ~FGt(sprite_scale_y, F(0))

\* The horizontal centre in the 4x space.
CenterX(vp, x, y, z, cam_z, screen_w) ==
    FAdd(FDiv(FMul(M(vp, 3, 0), ProjectRow(vp, 0, x, y, z)), cam_z),
         FMul(F(screen_w), F(2)))

\* The screen rectangle in the 4x space.
Rectangle(cfg, vp, x, y, z, cam_z, half_w, half_h, sprite_scale_x, sprite_scale_y, screen_w, screen_h) ==
  LET proj_y == ProjectRow(vp, 1, x, y, z)
      center_x == CenterX(vp, x, y, z, cam_z, screen_w)
      center_y == FAdd(FDiv(FMul(M(vp, 3, 1), proj_y), cam_z), FMul(F(screen_h), F(2)))
      geom_hh == IF cfg.geom_half_h # 0 THEN cfg.geom_half_h ELSE half_h
      x_offset0 == FDiv(FMul(F(half_w), sprite_scale_x), F(128))
      y_offset0 == FDiv(FMul(F(geom_hh), sprite_scale_y), F(128))
      clamp_val == FMul(F(cfg.offset_clamp), F(2))
      x_offset == IF cfg.offset_clamp > 0 THEN FMin(x_offset0, clamp_val) ELSE x_offset0
      y_offset == IF cfg.offset_clamp > 0 THEN FMin(y_offset0, clamp_val) ELSE y_offset0
      sw4 == FMul(F(screen_w), F(4))
      adj_center_x == IF cfg.screen_wrap THEN WrapUp(WrapDown(center_x, sw4), sw4)
                      ELSE center_x
  IN [xl |-> FSub(adj_center_x, x_offset),
      yl |-> FSub(center_y, FMul(y_offset, cfg.y_top_mul)),
      xh |-> FAdd(adj_center_x, x_offset),
      yh |-> IF FGt(cfg.y_bottom_fixed, F(0)) THEN FAdd(center_y, cfg.y_bottom_fixed)
             ELSE FAdd(center_y, y_offset)]

Offscreen(rect, screen_w, screen_h) ==
  LET screen_max_x == FMul(F(screen_w), F(4))
      screen_max_y == FMul(F(screen_h), F(4))
  IN ~(FLt(rect.xl, rect.xh) /\ FLt(rect.yl, rect.yh) /\ FLt(rect.xl, screen_max_x)
       /\ FLt(rect.yl, screen_max_y) /\ FGt(rect.xh, F(0)) /\ FGt(rect.yh, F(0)))

\* The second scale argument: its own stack slot only at dual-scale sites.
ScaleYRaw(cfg, m) == IF cfg.dual_scale THEN m.scale_y ELSE m.scale

WorldF(v) == Frac(v, 65536)

\* The result of a call at entry: the state untouched, the trace holding the
\* arguments.
EntryResult(st, cfg, m) ==
    [outcome |-> "None", s_alloc |-> st.s_alloc,
     frame_count |-> st.frame_count, quads |-> st.quads,
     stamp |-> st.stamp, gdl |-> st.gdl, gfx_mem |-> st.gfx_mem,
     pool_mem |-> st.pool_mem,
     trace |-> [RewriteTrace EXCEPT !.world_x = m.world_x, !.world_y = m.world_y,
                                    !.world_z = m.world_z, !.half_w = m.half_w,
                                    !.half_h = m.half_h, !.scale = m.scale],
     reads |-> {"regs", "stack"} \cup (IF cfg.dual_scale THEN {"stack_1C"} ELSE {}),
     cache_hit |-> FALSE, reached_cache |-> FALSE,
     cur |-> NoCorners, prev |-> NoCorners, q |-> <<0, 0, 0>>,
     handed |-> NoAlloc, verts_addr |-> 0, written |-> 0]

Return(R, name) == [R EXCEPT !.outcome = name]

Reads(R, tags) == [R EXCEPT !.reads = @ \cup tags]

\* Faulty variant: the last record is not written.
Emit_DropsLast(R, wctx, words) ==
    [R EXCEPT !.outcome = "Emitted",
              !.gfx_mem = WriteCommands(@, wctx.gdl_phys,
                                        SubSeq(words, 1, Len(words) - 1)),
              !.gdl = advance_gfx_ptr(wctx.gdl_vram,
                                      (Len(words) - 1) * GfxCommandBytes),
              !.written = Len(words) - 1]

\* Emission: the records are written at the cursor and the cursor advanced.
Emit(R, wctx, words) ==
    [R EXCEPT !.outcome = "Emitted",
              !.gfx_mem = WriteCommands(@, wctx.gdl_phys, words),
              !.gdl = advance_gfx_ptr(wctx.gdl_vram, Len(words) * GfxCommandBytes),
              !.written = Len(words)]

\* Gates 11 and 12: the cursor pointer and the room behind it.
CursorGate(R, prim_depth, group_id, wctx) ==
    IF ~wctx.ok
    THEN Return(R, "GfxPtrFail")
    ELSE IF CapacityFail(wctx.capacity_bytes)
    THEN Return(R, "GfxCapacityFail")
    ELSE Emit(R, wctx,
              CommandWords(EmittedCommands(prim_depth, R.s_alloc.proj_mtx_addr,
                                           R.s_alloc.view_mtx_addr, group_id,
                                           R.verts_addr)))

PrimDepth(clip_w, prim_depth_bias) ==
    (LRound(FAdd(FMul(FMul(clip_w, F(1023)), F(32)), F(32736))) - prim_depth_bias) % 65536

CursorStage(m, R, clip_w, group_id) ==
    CursorGate(Reads(R, {"primdepth_bias", "gdl"}), PrimDepth(clip_w, m.bias), group_id,
               try_get_gfx_ptr(R.gdl))

\* The four vertices: current and previous corners, texture coordinates.
\* Faulty variant: the texture extent is the half size, not the half size
\* less one.
Vertices_FullExtent(cur, prev, half_w, half_h) ==
    LET s_max == IClamp(IMax(0, half_w) * 64, -32768, 32767)
        t_max == IClamp(IMax(0, half_h) * 64, -32768, 32767)
    IN << Vertex(cur.x[1], cur.y[1], prev.x[1], prev.y[1], 0, 0),
          Vertex(cur.x[2], cur.y[2], prev.x[2], prev.y[2], s_max, 0),
          Vertex(cur.x[3], cur.y[3], prev.x[3], prev.y[3], 0, t_max),
          Vertex(cur.x[4], cur.y[4], prev.x[4], prev.y[4], s_max, t_max) >>

Vertices(cur, prev, half_w, half_h) ==
    LET s_max == IClamp(IMax(0, half_w - 1) * 64, -32768, 32767)
        t_max == IClamp(IMax(0, half_h - 1) * 64, -32768, 32767)
    IN << Vertex(cur.x[1], cur.y[1], prev.x[1], prev.y[1], 0, 0),
          Vertex(cur.x[2], cur.y[2], prev.x[2], prev.y[2], s_max, 0),
          Vertex(cur.x[3], cur.y[3], prev.x[3], prev.y[3], 0, t_max),
          Vertex(cur.x[4], cur.y[4], prev.x[4], prev.y[4], s_max, t_max) >>

VertexStage(m, R, clip_w, group_id) ==
    CursorStage(m,
                [R EXCEPT !.pool_mem = Store(@, R.verts_addr,
                                             [kind |-> "vtx",
                                              v |-> Vertices(R.cur, R.prev,
                                                             m.half_w, m.half_h)])],
                clip_w, group_id)

\* The cache stage: the sequence number advances, the previous corners are
\* looked up, the entry is overwritten.
CacheStage(m, R, clip_w, cur, q, group_id) ==
    VertexStage(m,
                [R EXCEPT !.trace.group_id = group_id,
                          !.stamp = @ + 1,
                          !.quads = UpdateCache(@, group_id, R.stamp + 1, q, cur),
                          !.reached_cache = TRUE, !.cur = cur, !.q = q,
                          !.prev = PrevCorners(R.quads, group_id, R.stamp + 1, q, cur)],
                clip_w, group_id)

Quantized(cfg, m) ==
    <<ShiftRight(m.world_x, cfg.hash_coord_shift),
      ShiftRight(m.world_y, cfg.hash_coord_shift),
      ShiftRight(m.world_z, cfg.hash_coord_shift)>>

GroupOf(cfg, m, q) ==
    billboard_group_id(q[1], q[2], q[3], m.half_w, m.half_h,
                       IF cfg.hash_includes_scale THEN m.scale ELSE 0, cfg.hash_salt)

IdentityStage(cfg, m, R, clip_w, cur, q) ==
    CacheStage(m, R, clip_w, cur, q, GroupOf(cfg, m, q))

\* The corners: the rectangle centred on the screen, clamped to 16 bits.
Corners(rect, screen_w, screen_h) ==
    LET cx == FMul(F(screen_w), F(2))
        cy == FMul(F(screen_h), F(2))
    IN [x |-> <<clamp_i16(FSub(rect.xl, cx)), clamp_i16(FSub(rect.xh, cx)),
                clamp_i16(FSub(rect.xl, cx)), clamp_i16(FSub(rect.xh, cx))>>,
        y |-> <<clamp_i16(FSub(rect.yl, cy)), clamp_i16(FSub(rect.yl, cy)),
                clamp_i16(FSub(rect.yh, cy)), clamp_i16(FSub(rect.yh, cy))>>]

\* The scratch allocation taken: on a cold call the two matrices are written
\* and their addresses cached; the vertices go behind them.
PlaceMatrices(m, R, al, kAllocBytes) ==
    IF R.cache_hit
    THEN [R EXCEPT !.s_alloc.used_slots = al.used_slots,
                   !.handed = [addr |-> al.out_addr, bytes |-> kAllocBytes,
                               slots |-> SlotsNeeded(kAllocBytes)],
                   !.verts_addr = al.out_addr]
    ELSE [R EXCEPT !.s_alloc = [@ EXCEPT !.used_slots = al.used_slots,
                                         !.proj_mtx_addr = al.out_addr,
                                         !.view_mtx_addr = ADD32(al.out_addr, kMatrixBytes),
                                         !.screen_w = m.screen_w,
                                         !.screen_h = m.screen_h,
                                         !.matrices_cached = TRUE],
                   !.pool_mem =
                       Store(Store(@, al.out_addr,
                                   [kind |-> "mtx",
                                    v |-> write_ortho(FMul(FNeg(F(m.screen_w)), F(2)),
                                                      FMul(F(m.screen_w), F(2)),
                                                      FMul(F(m.screen_h), F(2)),
                                                      FMul(FNeg(F(m.screen_h)), F(2)),
                                                      F(-1), F(1))]),
                             ADD32(al.out_addr, kMatrixBytes),
                             [kind |-> "mtx", v |-> write_identity]),
                   !.handed = [addr |-> al.out_addr, bytes |-> kAllocBytes,
                               slots |-> SlotsNeeded(kAllocBytes)],
                   !.verts_addr = ADD32(ADD32(al.out_addr, kMatrixBytes), kMatrixBytes)]

\* Gate 10: the allocation itself.
AllocGate(cfg, m, R, clip_w, rect, al, kAllocBytes) ==
    IF ~al.ok
    THEN Return(R, "AllocFail")
    ELSE IdentityStage(cfg, m, PlaceMatrices(m, R, al, kAllocBytes), clip_w,
                       Corners(rect, m.screen_w, m.screen_h), Quantized(cfg, m))

\* Faulty variant: the matrices are allocated on every call.
AllocBytes_AlwaysCold(cache_hit) == (kMatrixBytes * 2) + kVertexBytes

AllocBytes(cache_hit) ==
    IF cache_hit THEN kVertexBytes ELSE (kMatrixBytes * 2) + kVertexBytes

\* Faulty variant: the rectangle is not stored in the trace.
TraceRect_Dropped(R, rect) == R

TraceRect(R, rect) ==
    [R EXCEPT !.trace.xl = rect.xl, !.trace.yl = rect.yl,
              !.trace.xh = rect.xh, !.trace.yh = rect.yh]

\* Gate 9: the rectangle against the screen.
RectGate(cfg, m, R, clip_w, rect) ==
    IF Offscreen(rect, m.screen_w, m.screen_h)
    THEN Return(TraceRect(R, rect), "Offscreen")
    ELSE AllocGate(cfg, m, TraceRect(R, rect), clip_w, rect,
                   allocate_billboard_data(R.s_alloc.used_slots,
                                           AllocBytes(R.cache_hit), 0),
                   AllocBytes(R.cache_hit))

\* Gate 8: the two sprite scales; then the screen wrap, from which the call
\* does not return ("NoReturn") when a loop makes no progress.
ScaleGate(cfg, m, R, cam_z, clip_w, sprite_scale_x, sprite_scale_y) ==
    IF InvalidSpriteScale(sprite_scale_x, sprite_scale_y)
    THEN Return([R EXCEPT !.trace.sprite_scale = sprite_scale_x], "InvalidSpriteScale")
    ELSE IF /\ cfg.screen_wrap
            /\ WrapLoopsForever(CenterX(R.s_alloc.vp_mtx, WorldF(m.world_x),
                                        WorldF(m.world_y), WorldF(m.world_z), cam_z,
                                        m.screen_w),
                                FMul(F(m.screen_w), F(4)))
    THEN Return([R EXCEPT !.trace.sprite_scale = sprite_scale_x], "NoReturn")
    ELSE RectGate(cfg, m, [R EXCEPT !.trace.sprite_scale = sprite_scale_x], clip_w,
                  Rectangle(cfg, R.s_alloc.vp_mtx, WorldF(m.world_x), WorldF(m.world_y),
                            WorldF(m.world_z), cam_z, m.half_w, m.half_h,
                            sprite_scale_x, sprite_scale_y, m.screen_w, m.screen_h))

\* Gate 7: the field of view read from the level configuration.
FovGate(cfg, m, R, cam_z, clip_w) ==
    IF InvalidFov(m.fov)
    THEN Return(Reads(R, {"fov"}), "InvalidFov")
    ELSE ScaleGate(cfg, m, Reads(R, {"fov"}), cam_z, clip_w,
                   SpriteScale(cfg, m.scale, m.fov, cam_z),
                   SpriteScale(cfg, ScaleYRaw(cfg, m), m.fov, cam_z))

\* Gate 6: the depth proxy.
ClipGate(cfg, m, R, cam_z, clip_w) ==
    IF InvalidClipW(clip_w)
    THEN Return([R EXCEPT !.trace.clip_w = clip_w], "InvalidClipW")
    ELSE FovGate(cfg, m, [R EXCEPT !.trace.clip_w = clip_w], cam_z, clip_w)

\* Gate 5: the camera-space depth.
CameraGate(cfg, m, R, cam_z) ==
    IF BehindCamera(cam_z)
    THEN Return([R EXCEPT !.trace.cam_z = cam_z], "BehindCamera")
    ELSE ClipGate(cfg, m, [R EXCEPT !.trace.cam_z = cam_z], cam_z,
                  ClipW(R.s_alloc.vp_mtx, cam_z))

\* The view-projection matrix: read once per frame, then served from s_alloc.
ViewProjStage(cfg, m, R) ==
    CameraGate(cfg, m,
               [R EXCEPT !.s_alloc = FillViewProj(@, m.vp),
                         !.reads = @ \cup (IF R.s_alloc.vp_cached THEN {}
                                           ELSE {"viewproj"})],
               CamZ(FillViewProj(R.s_alloc, m.vp).vp_mtx, WorldF(m.world_x),
                    WorldF(m.world_y), WorldF(m.world_z)))

AfterReset(m, R, fr) ==
    [R EXCEPT !.s_alloc = fr.alloc, !.frame_count = fr.frame_count,
              !.cache_hit = CacheHit(fr.alloc, m.screen_w, m.screen_h)]

\* Gate 4: the capacity pre-check, after frame-change detection.
EarlyCapacityGate(cfg, m, R, fr) ==
    IF EarlyCapacityFail(fr.alloc, CacheHit(fr.alloc, m.screen_w, m.screen_h))
    THEN Return(AfterReset(m, R, fr), "AllocFail")
    ELSE ViewProjStage(cfg, m, AfterReset(m, R, fr))

\* Gate 3: the display-list state pointer.
DlStateGate(cfg, m, R) ==
    IF m.dl_state = 0
    THEN Return(Reads(R, {"dl_state"}), "MissingDlState")
    ELSE EarlyCapacityGate(cfg, m, Reads(R, {"dl_state"}),
                           FrameReset(R.s_alloc, R.frame_count, m.dl_state))

ReadScreen(m, R) ==
    [R EXCEPT !.trace.screen_w = m.screen_w, !.trace.screen_h = m.screen_h,
              !.reads = @ \cup {"screen"}]

\* Gate 2: the screen size.
ScreenGate(cfg, m, R) ==
    IF InvalidScreen(m.screen_w, m.screen_h)
    THEN Return(ReadScreen(m, R), "InvalidScreen")
    ELSE DlStateGate(cfg, m, ReadScreen(m, R))

\* The engine: the gates in order, each returning its outcome with the state
\* as changed so far; st is the state before, m what the call reads.
rewrite_billboard_ortho_quad(st, cfg, m) ==
    IF InvalidArgs(cfg, m.half_w, m.half_h, m.scale, ScaleYRaw(cfg, m))
    THEN Return(EntryResult(st, cfg, m), "InvalidArgs")
    ELSE ScreenGate(cfg, m, EntryResult(st, cfg, m))

(***************************************************************************)
(* Render toggles and per-site statistics.                                 *)
(***************************************************************************)
HookSites == {"6c5e44", "73f17c", "73f800", "740094", "740820"}

\* The toggles of one site at program start.  suppress_original starts true
\* in a release build (NDEBUG) and false otherwise.
SiteFlags(release) == [disable |-> FALSE, rewrite |-> TRUE, suppress |-> release]

\* The six sites with a statistics record and a render-disable toggle; the
\* site 6fa3a4 has no rewrite.
AllSites == HookSites \cup {"6fa3a4"}

InitFlags(release) ==
    [s \in AllSites |-> IF s \in HookSites THEN SiteFlags(release)
                        ELSE [disable |-> FALSE]]

\* The toggles after the saved configuration has been applied through the
\* setters: every rewrite site set to fl, the mask site to mask_disable.
ConfiguredFlags(fl, mask_disable) ==
    [s \in AllSites |-> IF s \in HookSites THEN fl ELSE [disable |-> mask_disable]]

RewriteOutcomes ==
    {"Emitted", "InvalidArgs", "InvalidScreen", "MissingDlState", "BehindCamera",
     "InvalidClipW", "InvalidFov", "InvalidSpriteScale", "Offscreen", "AllocFail",
     "GfxPtrFail", "GfxCapacityFail"}

OutcomeIndex(name) ==
    CASE name = "Emitted" -> 0
      [] name = "InvalidArgs" -> 1
      [] name = "InvalidScreen" -> 2
      [] name = "MissingDlState" -> 3
      [] name = "BehindCamera" -> 4
      [] name = "InvalidClipW" -> 5
      [] name = "InvalidFov" -> 6
      [] name = "InvalidSpriteScale" -> 7
      [] name = "Offscreen" -> 8
      [] name = "AllocFail" -> 9
      [] name = "GfxPtrFail" -> 10
      [] name = "GfxCapacityFail" -> 11

STATS_LOG_INTERVAL == 150

BillboardStats ==
    [interval_calls |-> 0, interval_emits |-> 0, interval_suppresses |-> 0,
     interval_skips |-> 0, interval_fail_counts |-> [i \in 0..11 |-> 0],
     last_log_frame |-> 0,
     sample |-> [wx |-> 0, wy |-> 0, wz |-> 0, scale |-> 0, cam_z |-> F(0),
                 group_id |-> <<0, 0>>],
     has_sample |-> FALSE]

\* Faulty variant: a flush keeps the counters.
maybe_log_stats_KeepsCounts(s, frame_count) ==
    IF (frame_count - s.last_log_frame) < STATS_LOG_INTERVAL THEN s
    ELSE [s EXCEPT !.last_log_frame = frame_count]

\* Every STATS_LOG_INTERVAL frames the interval counters start again.
maybe_log_stats(s, frame_count) ==
    IF (frame_count - s.last_log_frame) < STATS_LOG_INTERVAL
    THEN s
    ELSE IF s.interval_calls = 0 /\ s.interval_skips = 0
    THEN [s EXCEPT !.last_log_frame = frame_count]
    ELSE [s EXCEPT !.last_log_frame = frame_count,
                   !.interval_calls = 0, !.interval_emits = 0,
                   !.interval_suppresses = 0, !.interval_skips = 0,
                   !.interval_fail_counts = [i \in 0..11 |-> 0],
                   !.has_sample = FALSE]

\* Faulty variant: an emitted call is not counted as a call.
Counted_EmitNotACall(s, outcome_name, suppressed, tr) ==
    IF outcome_name = "Emitted"
    THEN [s EXCEPT !.interval_emits = @ + 1,
                   !.interval_suppresses = IF suppressed THEN @ + 1 ELSE @,
                   !.has_sample = TRUE]
    ELSE [s EXCEPT !.interval_calls = @ + 1,
                   !.interval_fail_counts[OutcomeIndex(outcome_name)] = @ + 1]

Counted(s, outcome_name, suppressed, tr) ==
    IF outcome_name = "Emitted"
    THEN [s EXCEPT !.interval_calls = @ + 1,
                   !.interval_emits = @ + 1,
                   !.interval_suppresses = IF suppressed THEN @ + 1 ELSE @,
                   !.sample = IF s.has_sample THEN @
                              ELSE [wx |-> tr.world_x, wy |-> tr.world_y,
                                    wz |-> tr.world_z, scale |-> tr.scale,
                                    cam_z |-> tr.cam_z, group_id |-> tr.group_id],
                   !.has_sample = TRUE]
    ELSE [s EXCEPT !.interval_calls = @ + 1,
                   !.interval_fail_counts[OutcomeIndex(outcome_name)] = @ + 1]

record_stat(s, outcome_name, suppressed, tr, frame_count) ==
    maybe_log_stats(Counted(s, outcome_name, suppressed, tr), frame_count)

\* Faulty variant: a skip is counted as a call too.
Skipped_CountsCall(s) ==
    [s EXCEPT !.interval_skips = @ + 1, !.interval_calls = @ + 1]

Skipped(s) == [s EXCEPT !.interval_skips = @ + 1]

record_stat_skip(s, frame_count) == maybe_log_stats(Skipped(s), frame_count)

\* total_fails: the failure counts 1..11.
TotalFails(s) ==
    LET c == s.interval_fail_counts
    IN c[1] + c[2] + c[3] + c[4] + c[5] + c[6] + c[7] + c[8] + c[9] + c[10] + c[11]

\* What maybe_log_stats prints: one report line when the interval is over,
\* something was counted and the log toggle is set.
StatsReport(label, s, frame_count, log, used_slots) ==
    IF (frame_count - s.last_log_frame) < STATS_LOG_INTERVAL THEN <<>>
    ELSE IF s.interval_calls = 0 /\ s.interval_skips = 0 THEN <<>>
    ELSE IF log
    THEN <<[tag |-> "BILLBOARD", label |-> label, calls |-> s.interval_calls,
            emit |-> s.interval_emits, suppress |-> s.interval_suppresses,
            skip |-> s.interval_skips, fail |-> TotalFails(s),
            has_sample |-> s.has_sample, pool |-> used_slots]>>
    ELSE <<>>

\* The per-call line of the hook at 73f17c (debug builds, log toggle set):
\* every call that did not emit, and every 64th call.
OrthoLog(site, debug, log, count, outcome_name, tr, suppress) ==
    IF site = "73f17c" /\ debug /\ log
       /\ (outcome_name # "Emitted" \/ (count + 1) % 64 = 0)
    THEN <<[tag |-> "73F17C-ORTHO", n |-> count + 1, outcome |-> outcome_name,
            group_id |-> tr.group_id, suppress |-> suppress]>>
    ELSE <<>>

(***************************************************************************)
(* State.                                                                  *)
(*  mem    : what the game keeps in the memory image and registers and the *)
(*           engine only reads (stack arguments, world position, screen    *)
(*           size, display-list-state pointer, view-projection block,      *)
(*           level configuration)                                          *)
(*  gdl    : the display-list cursor stored at *r4                         *)
(*  gfx_mem, pool_mem : the GfxCommand records / scratch blocks written    *)
(*           since the initial state, by physical offset / by address      *)
(*  s_alloc, g_billboard_frame_count, g_prev_quads, g_quad_stamp : the     *)
(*           process-wide state of the source                              *)
(*  outcome, trace, obs : result, RewriteTrace and effects of the call     *)
(*           just made ("None" when the game has run since)                *)
(*  alloc_call : argument and result of the last direct call of            *)
(*           allocate_billboard_data                                       *)
(*  flags, stats : the render toggles and the statistics of each site      *)
(*  g_log_73f17c_ortho : the debug-log toggle                              *)
(*  NDEBUG : whether the build is a release build                          *)
(*  s_call_count : the call counter of the hook at 73f17c (debug builds)   *)
(*  id_call : arguments and results of the last direct calls of            *)
(*           billboard_group_id                                            *)
(*  handed_out : the scratch ranges handed out, each with the frame count, *)
(*           in order                                                      *)
(*  calls  : number of calls made                                          *)
(***************************************************************************)
VARIABLES mem, gdl, gfx_mem, pool_mem, s_alloc, g_billboard_frame_count,
          g_prev_quads, g_quad_stamp, flags, stats, outcome, trace, obs,
          alloc_call, handed_out, calls, g_log_73f17c_ortho, NDEBUG,
          s_call_count, id_call, hook_pc,
          config, window, last_aspect, aspect_call, rdram, ctx, patch_call,
          state, launcher, music_call, playback

\* The state of the billboard rewrite, and the state of the two patches
\* that share nothing with it: the aspect-ratio hook and the collision-size
\* patch.
billboard_vars ==
    <<mem, gdl, gfx_mem, pool_mem, s_alloc, g_billboard_frame_count,
      g_prev_quads, g_quad_stamp, flags, stats, outcome, trace, obs,
      alloc_call, handed_out, calls, g_log_73f17c_ortho, NDEBUG,
      s_call_count, id_call, hook_pc>>

widescreen_vars == <<config, window, last_aspect, aspect_call>>

patch_vars == <<rdram, ctx, patch_call>>

\* The launcher music of the SDK: its state, what its callbacks see of the
\* launcher, the last call made, and the last of start_playback (when it
\* succeeded) and stop_playback to have been invoked.
music_vars == <<state, launcher, music_call, playback>>

other_vars == <<widescreen_vars, patch_vars, music_vars>>

vars == <<billboard_vars, widescreen_vars, patch_vars, music_vars>>

ProgState ==
    [s_alloc |-> s_alloc, frame_count |-> g_billboard_frame_count,
     quads |-> g_prev_quads, stamp |-> g_quad_stamp, gdl |-> gdl,
     gfx_mem |-> gfx_mem, pool_mem |-> pool_mem]

\* What one call reads: registers r5..r7, the stack image at r29, and the
\* fixed addresses of the memory image.
CallInput(mi) ==
    [world_x |-> mi.draw.world_x, world_y |-> mi.draw.world_y,
     world_z |-> mi.draw.world_z, half_w |-> mi.draw.half_w,
     half_h |-> mi.draw.half_h, scale |-> mi.draw.scale,
     scale_y |-> mi.draw.scale_y, arg20 |-> mi.draw.arg20,
     arg24 |-> mi.draw.arg24, screen_w |-> mi.screen[1],
     screen_h |-> mi.screen[2], dl_state |-> mi.dl_state, vp |-> mi.vp,
     fov |-> mi.level.fov, bias |-> mi.level.bias]

\* The state at program start (static initialisers of the source).
BillboardAllocator ==
    [dl_state |-> 0, used_slots |-> 0, proj_mtx_addr |-> 0, view_mtx_addr |-> 0,
     screen_w |-> 0, screen_h |-> 0, matrices_cached |-> FALSE,
     vp_mtx |-> [i \in 1..16 |-> F(0)], vp_cached |-> FALSE]

\* What the calls made before a state have left in the statistics: the
\* site that drew, its calls (all Emitted), those counted since the last
\* flush, the frame of that flush, and the trace of the first call counted.
NoPast == [site |-> "none", calls |-> 0, counted |-> 0, last |-> 0,
           sample |-> RewriteTrace]

FreshState(cursor) ==
    [s_alloc |-> BillboardAllocator, frame_count |-> 0, quads |-> <<>>,
     stamp |-> 0, gdl |-> cursor, gfx_mem |-> <<>>, pool_mem |-> <<>>,
     past |-> NoPast]

\* The statistics of the site of past after its calls, by build.
StatsOfPast(past, release) ==
    [BillboardStats EXCEPT
       !.interval_calls = past.counted,
       !.interval_emits = past.counted,
       !.interval_suppresses = IF release THEN past.counted ELSE 0,
       !.last_log_frame = past.last,
       !.has_sample = past.counted > 0,
       !.sample = IF past.calls = 0 THEN @
                  ELSE [wx |-> past.sample.world_x, wy |-> past.sample.world_y,
                        wz |-> past.sample.world_z, scale |-> past.sample.scale,
                        cam_z |-> past.sample.cam_z,
                        group_id |-> past.sample.group_id]]

StateOf(r) ==
    [s_alloc |-> r.s_alloc, frame_count |-> r.frame_count, quads |-> r.quads,
     stamp |-> r.stamp, gdl |-> r.gdl, gfx_mem |-> r.gfx_mem,
     pool_mem |-> r.pool_mem]

AllocNone == [bytes |-> 0, out_before |-> 0, ok |-> FALSE, out_addr |-> 0]

ObsNone ==
    [site |-> "none", reads |-> {}, cache_hit |-> FALSE,
     reached_cache |-> FALSE, cur |-> NoCorners, prev |-> NoCorners,
     q |-> <<0, 0, 0>>, handed |-> NoAlloc, verts_addr |-> 0, written |-> 0,
     engine |-> FALSE, stack_writes |-> {}, printed |-> <<>>,
     stats_after_log |-> BillboardStats]

IdNone == [made |-> FALSE]

\* The state in the middle of a frame: one call drawing first_draw (cold),
\* then n calls drawing next_draw (warm), all Emitted in one frame with the
\* memory image mi.  Each warm call takes 6 slots, advances g_quad_stamp by
\* one and restamps its cache entry.  gfx_mem and pool_mem start empty:
\* they record the writes made from here on.
MidFrameState(site, mi, first_draw, next_draw, n, cursor) ==
    LET start == K0BASE + 1048576
        m1 == [mi EXCEPT !.draw = first_draw]
        m2 == [mi EXCEPT !.draw = next_draw]
        r1 == rewrite_billboard_ortho_quad(FreshState(start),
                                           SiteConfig(site, first_draw), CallInput(m1))
        s1 == StateOf(r1)
        r2 == rewrite_billboard_ortho_quad(s1, SiteConfig(site, next_draw), CallInput(m2))
        s2 == StateOf(r2)
        g2 == r2.trace.group_id
    IN [s_alloc |-> [s2.s_alloc EXCEPT
                       !.used_slots = @ + (n - 1) * SlotsNeeded(kVertexBytes)],
        frame_count |-> s2.frame_count,
        quads |-> [s2.quads EXCEPT ![g2].stamp = @ + (n - 1)],
        stamp |-> s2.stamp + (n - 1),
        gdl |-> cursor, gfx_mem |-> <<>>, pool_mem |-> <<>>,
        past |-> [site |-> site, calls |-> n + 1, counted |-> n + 1, last |-> 0,
                  sample |-> r1.trace]]

\* The state after a number of frames in each of which the site drew one
\* billboard (a cold call, Emitted), the frame token changing every frame
\* and being token in the last one.  The statistics were flushed at every
\* STATS_LOG_INTERVAL-th frame.
FrameRunState(site, mi, one_draw, frames, token, cursor) ==
    LET start == K0BASE + 1048576
        r1 == rewrite_billboard_ortho_quad(FreshState(start),
                                           SiteConfig(site, one_draw),
                                           CallInput([mi EXCEPT !.draw = one_draw]))
        g1 == r1.trace.group_id
        last == STATS_LOG_INTERVAL * (frames \div STATS_LOG_INTERVAL)
    IN [s_alloc |-> [r1.s_alloc EXCEPT !.dl_state = token],
        frame_count |-> frames,
        quads |-> [r1.quads EXCEPT ![g1].stamp = frames],
        stamp |-> frames,
        gdl |-> cursor, gfx_mem |-> <<>>, pool_mem |-> <<>>,
        past |-> [site |-> site, calls |-> frames, counted |-> frames - last,
                  last |-> last, sample |-> r1.trace]]

\* The scratch ranges of the current frame already handed out in a state.
HandedBefore(st) ==
    IF st.s_alloc.used_slots = 0 THEN <<>>
    ELSE <<[frame |-> st.frame_count, addr |-> BILLBOARD_POOL_VRAM,
            bytes |-> st.s_alloc.used_slots * BILLBOARD_SLOT_BYTES]>>

\* No hook is running.
HookIdle == [at |-> "idle"]

(***************************************************************************)
(* Actions.  D is the domain of a specification: the values the game may   *)
(* store, the calling sites, and the initial program states.               *)
(***************************************************************************)
(***************************************************************************)
(* The aspect-ratio hook of the widescreen patch.                          *)
(***************************************************************************)
BASE_ASPECT == Frac(320, 240)        \* BASE_WIDTH / BASE_HEIGHT

\* The bounds of the sanity check, 0.1f and 10.0f.  0.1f, the float next to
\* 1/10, is held as 1/10: the arguments are taken below it, at it and above.
kMinOriginal == Frac(1, 10)

kMaxOriginal == F(10)

\* The values of ultramodern::renderer::AspectRatio.
AspectRatio == {"Original", "Expand", "Manual"}

\* std::max(a, b): (a < b) ? b : a.
FMax(a, b) == IF FLt(a, b) THEN b ELSE a

\* Faulty variant: the window's aspect without the 4:3 floor.
calculate_target_aspect_NoFloor(win) ==
    IF win[1] <= 0 \/ win[2] <= 0 THEN BASE_ASPECT
    ELSE FDiv(F(win[1]), F(win[2]))

calculate_target_aspect(win) ==
    IF win[1] <= 0 \/ win[2] <= 0 THEN BASE_ASPECT
    ELSE FMax(FDiv(F(win[1]), F(win[2])), BASE_ASPECT)

\* What sssv_get_target_aspect_ratio returns, prints and keeps in its two
\* statics.
TargetAspectRatio(original, cfg, win, last) ==
    IF cfg.ar_option = "Original"
    THEN [result |-> original, printed |-> FALSE, last |-> last]
    ELSE IF ~IsFinite(original) \/ FLt(original, kMinOriginal)
               \/ FGt(original, kMaxOriginal)
    THEN [result |-> original, printed |-> FALSE, last |-> last]
    ELSE LET target == calculate_target_aspect(win)
             result == FMax(target, original)
             changed == original # last.last_original \/ result # last.last_result
         IN [result |-> result, printed |-> changed,
             last |-> IF changed
                      THEN [last_original |-> original, last_result |-> result]
                      ELSE last]

AspectNone == [n |-> 0, original |-> F(0), result |-> F(0), printed |-> FALSE]

sssv_get_target_aspect_ratio(original, max_calls) ==
    /\ aspect_call.n < max_calls
    /\ LET r == TargetAspectRatio(original, config, window, last_aspect)
       IN /\ aspect_call' = [n |-> aspect_call.n + 1, original |-> original,
                             result |-> r.result, printed |-> r.printed]
          /\ last_aspect' = r.last
    /\ UNCHANGED <<billboard_vars, music_vars, patch_vars, config, window>>

\* The user resizes the window or changes the aspect-ratio option.
SetWindowSize(D) ==
    /\ \E win \in D.windows : window' = win /\ win # window
    /\ UNCHANGED <<billboard_vars, music_vars, patch_vars, config, last_aspect, aspect_call>>

SetArOption(D) ==
    /\ \E o \in D.ar_options : config' = [ar_option |-> o] /\ o # config.ar_option
    /\ UNCHANGED <<billboard_vars, music_vars, patch_vars, window, last_aspect, aspect_call>>

(***************************************************************************)
(* The collision-size patch.  rdram is the memory image by game address,   *)
(* one byte each, over the two words around the patched byte; ctx is the   *)
(* register file.                                                          *)
(***************************************************************************)
ADDR_FBM_TROPHY_HITBOX_SIZE == K0BASE + 3855347      \* 0x803AD3F3 as int32

FBM_TROPHY_HITBOX_FIXED_VALUE == 21                  \* 0x15

PatchWindow == (ADDR_FBM_TROPHY_HITBOX_SIZE - 3)..(ADDR_FBM_TROPHY_HITBOX_SIZE + 4)

\* Faulty variant: the store is a word store.
PatchedImage_WordStore(rd) ==
    IF rd[ADDR_FBM_TROPHY_HITBOX_SIZE] # FBM_TROPHY_HITBOX_FIXED_VALUE
    THEN [a \in DOMAIN rd |->
             IF a = ADDR_FBM_TROPHY_HITBOX_SIZE THEN FBM_TROPHY_HITBOX_FIXED_VALUE
             ELSE IF a \in (ADDR_FBM_TROPHY_HITBOX_SIZE - 3)..ADDR_FBM_TROPHY_HITBOX_SIZE
             THEN 0 ELSE rd[a]]
    ELSE rd

\* MEM_BU reads the byte, MEM_B stores it.
PatchedImage(rd) ==
    IF rd[ADDR_FBM_TROPHY_HITBOX_SIZE] # FBM_TROPHY_HITBOX_FIXED_VALUE
    THEN [rd EXCEPT ![ADDR_FBM_TROPHY_HITBOX_SIZE] = FBM_TROPHY_HITBOX_FIXED_VALUE]
    ELSE rd

PatchNone == [n |-> 0, before |-> 0]

sssv_patch_trophy_collision_guard(max_calls) ==
    /\ patch_call.n < max_calls
    /\ rdram' = PatchedImage(rdram)
    /\ patch_call' = [n |-> patch_call.n + 1,
                      before |-> rdram[ADDR_FBM_TROPHY_HITBOX_SIZE]]
    /\ UNCHANGED <<billboard_vars, music_vars, widescreen_vars, ctx>>

\* The game stores a byte, or runs on and changes a register.
GameStoresByte(D) ==
    /\ \E a \in PatchWindow, b \in D.bytes :
          /\ rdram[a] # b
          /\ rdram' = [rdram EXCEPT ![a] = b]
    /\ UNCHANGED <<billboard_vars, music_vars, widescreen_vars, ctx, patch_call>>

GameSetsRegister(D) ==
    /\ \E c \in D.ctxs : ctx' = c /\ c # ctx
    /\ UNCHANGED <<billboard_vars, music_vars, widescreen_vars, rdram, patch_call>>

\* The image as loaded: the byte holds one of the values of the domain, the
\* bytes around it are zero.
RdramWith(b) == [a \in PatchWindow |-> IF a = ADDR_FBM_TROPHY_HITBOX_SIZE THEN b ELSE 0]

Ctx(v0, sp) == [r2 |-> v0, r29 |-> sp]

(***************************************************************************)
(* The launcher music (csdk::launcher_music).  The PCM buffer is held by   *)
(* its length in floats, a file by what decoding it gives: the number of   *)
(* frames, the channels and the sample rate.  A callback table is the set  *)
(* of the callbacks that are not null.                                     *)
(***************************************************************************)
AllCallbacks ==
    {"is_launcher_visible", "is_game_started", "get_queued_ms", "queue_audio",
     "start_playback", "stop_playback"}

NoPath == [empty |-> TRUE]

\* A path to a file that cannot be read or is no WAV the decoder accepts.
BadFile == [empty |-> FALSE, decodes |-> FALSE, frames |-> 0, channels |-> 0, rate |-> 0]

WavFile(frames, channels, rate) ==
    [empty |-> FALSE, decodes |-> frames > 0 /\ channels > 0 /\ rate > 0,
     frames |-> frames, channels |-> channels, rate |-> rate]

Config ==
    [wav_path |-> NoPath, output_sample_rate |-> 48000, output_channels |-> 2,
     target_queue_ms |-> 200, chunk_frames |-> 1024]

\* State state; and state = {}.
State ==
    [config |-> Config, callbacks |-> {}, pcm |-> 0, cursor_frames |-> 0,
     pcm_channels |-> 0, enabled |-> FALSE, loaded |-> FALSE,
     load_attempted |-> FALSE, playing |-> FALSE]

\* The frames resample_linear returns (0: an empty vector).
resample_linear(in_frames, in_rate, out_rate, channels) ==
    IF in_frames * channels = 0 \/ in_rate = 0 \/ out_rate = 0 \/ channels = 0 THEN 0
    ELSE IF in_rate = out_rate THEN in_frames
    ELSE (in_frames * out_rate) \div in_rate

\* The floats convert_channels returns (0: an empty vector).
convert_channels(in_size, in_channels, out_channels) ==
    IF in_channels = out_channels THEN in_size
    ELSE IF in_channels = 0 \/ out_channels = 0 THEN 0
    ELSE IF in_channels = 1 /\ out_channels = 2 THEN (in_size \div 1) * 2
    ELSE IF in_channels = 2 /\ out_channels = 1 THEN in_size \div 2
    ELSE 0

\* Faulty variant: a file that fails is read again by the next call.
load_wav_Retries(st) ==
    LET f == st.config.wav_path
    IN IF st.loaded THEN [ok |-> TRUE, st |-> st]
       ELSE IF f.empty \/ ~f.decodes
       THEN [ok |-> FALSE, st |-> [st EXCEPT !.load_attempted = FALSE]]
       ELSE LET resampled == resample_linear(f.frames, f.rate,
                                             st.config.output_sample_rate, f.channels)
                converted == convert_channels(resampled * f.channels, f.channels,
                                              st.config.output_channels)
            IN IF resampled = 0 \/ converted = 0
               THEN [ok |-> FALSE, st |-> [st EXCEPT !.load_attempted = FALSE]]
               ELSE [ok |-> TRUE,
                     st |-> [st EXCEPT !.pcm = converted,
                                       !.pcm_channels = st.config.output_channels,
                                       !.loaded = TRUE]]

load_wav(st) ==
    LET f == st.config.wav_path
    IN IF st.loaded THEN [ok |-> TRUE, st |-> st]
       ELSE IF f.empty \/ ~f.decodes THEN [ok |-> FALSE, st |-> st]
       ELSE LET resampled == resample_linear(f.frames, f.rate,
                                             st.config.output_sample_rate, f.channels)
                converted == convert_channels(resampled * f.channels, f.channels,
                                              st.config.output_channels)
            IN IF resampled = 0 \/ converted = 0 THEN [ok |-> FALSE, st |-> st]
               ELSE [ok |-> TRUE,
                     st |-> [st EXCEPT !.pcm = converted,
                                       !.pcm_channels = st.config.output_channels,
                                       !.loaded = TRUE]]

callbacks_valid(st) == AllCallbacks \subseteq st.callbacks

\* What the audio callbacks answer during one update: start_playback
\* succeeds or not, get_queued_ms reports base_ms plus ms_per_chunk for every
\* chunk taken in this update, queue_audio refuses the chunk number fail_at.
Audio(start_ok, base_ms, ms_per_chunk, fail_at) ==
    [start_ok |-> start_ok, base_ms |-> base_ms, ms_per_chunk |-> ms_per_chunk,
     fail_at |-> fail_at]

IMin(a, b) == IF b < a THEN b ELSE a

\* The safety bound of the queueing loop.
kSafetyLimit == 128

\* Faulty variant: a chunk may run past the end of the buffer.
FramesToCopy_Unclipped(chunk_frames, frames_available) == chunk_frames

FramesToCopy(chunk_frames, frames_available) == IMin(chunk_frames, frames_available)

\* One evaluation of the loop condition and, when it holds, one pass through
\* the body.  L holds cursor_frames, safety, queued_ms, the chunks handed to
\* queue_audio (refused one included), the times the body was entered,
\* whether the safety bound ended the loop, and whether the loop has ended.
QueueStep(st, aud, gain, L) ==
    IF L.done THEN L
    ELSE IF ~(L.queued_ms < st.config.target_queue_ms) THEN [L EXCEPT !.done = TRUE]
    ELSE IF L.safety > kSafetyLimit
    THEN [L EXCEPT !.safety = @ + 1, !.entries = @ + 1, !.broke = TRUE, !.done = TRUE]
    ELSE LET total_frames == st.pcm \div st.pcm_channels
             frames_available == total_frames - L.cursor_frames
             frames_to_copy == FramesToCopy(st.config.chunk_frames, frames_available)
             chunk == [first |-> L.cursor_frames, frames |-> frames_to_copy,
                       gain |-> gain]
             accepted == Len(L.chunks) # aud.fail_at
             moved == L.cursor_frames + frames_to_copy
         IN IF frames_to_copy = 0
            THEN [L EXCEPT !.cursor_frames = 0, !.safety = @ + 1, !.entries = @ + 1]
            ELSE IF ~accepted
            THEN [L EXCEPT !.safety = @ + 1, !.entries = @ + 1,
                           !.chunks = Append(@, chunk), !.refused = TRUE,
                           !.done = TRUE]
            ELSE [L EXCEPT !.cursor_frames = IF moved >= total_frames THEN 0 ELSE moved,
                           !.safety = @ + 1, !.entries = @ + 1,
                           !.chunks = Append(@, chunk),
                           !.queued_ms = aud.base_ms
                                          + aud.ms_per_chunk * (Len(L.chunks) + 1)]

\* The steps the loop is followed for; a loop still running after them is
\* reported as not ended.
MaxQueueSteps == 140

\* n steps of the loop from L.
RECURSIVE QueueLoop(_, _, _, _, _)
QueueLoop(st, aud, gain, L, n) ==
    IF n = 0 THEN L
    ELSE IF n = 1 THEN QueueStep(st, aud, gain, L)
    ELSE LET half == QueueLoop(st, aud, gain, L, n \div 2)
         IN IF half.done THEN half
            ELSE QueueLoop(st, aud, gain, half, n - (n \div 2))

NoLoop == [cursor_frames |-> 0, safety |-> 0, queued_ms |-> 0, chunks |-> <<>>,
           entries |-> 0, refused |-> FALSE, broke |-> FALSE, done |-> TRUE]

\* What a call has done besides changing the state.
Done(op, st, stop, start, loads, L) ==
    [op |-> op, st |-> st, before |-> "none",
     seen |-> [visible |-> FALSE, game_started |-> FALSE], stop |-> stop, start |-> start,
     loads |-> loads, entries |-> L.entries, chunks |-> L.chunks,
     refused |-> L.refused, broke |-> L.broke, returned |-> L.done]

NeedsStart(st) == ~st.playing

should_play(la) == ~la.game_started /\ la.visible

\* update(volume): la is what is_launcher_visible and is_game_started answer.
update(st, la, aud, volume) ==
    IF ~st.enabled \/ ~callbacks_valid(st) THEN Done("update", st, FALSE, "none", 0, NoLoop)
    ELSE IF ~should_play(la)
    THEN IF st.playing
         THEN Done("update", [st EXCEPT !.playing = FALSE], TRUE, "none", 0, NoLoop)
         ELSE Done("update", st, FALSE, "none", 0, NoLoop)
    ELSE IF ~st.loaded /\ st.load_attempted
    THEN Done("update", st, FALSE, "none", 0, NoLoop)
    ELSE LET attempt == ~st.loaded
             ld == IF attempt THEN load_wav([st EXCEPT !.load_attempted = TRUE])
                   ELSE [ok |-> TRUE, st |-> st]
             loads == IF attempt THEN 1 ELSE 0
             s1 == ld.st
         IN IF ~ld.ok THEN Done("update", s1, FALSE, "none", loads, NoLoop)
            ELSE IF NeedsStart(s1) /\ ~aud.start_ok
            THEN Done("update", s1, FALSE, "failed", loads, NoLoop)
            ELSE LET start == IF NeedsStart(s1) THEN "ok" ELSE "none"
                     s2 == IF NeedsStart(s1)
                           THEN [s1 EXCEPT !.cursor_frames = 0, !.playing = TRUE]
                           ELSE s1
                 IN IF s2.pcm = 0 \/ s2.pcm_channels = 0
                    THEN Done("update", s2, FALSE, start, loads, NoLoop)
                    ELSE LET v == FClamp(volume, F(0), F(1))
                             gain == IF FGe(v, Frac(999, 1000)) THEN F(1) ELSE v
                             L == QueueLoop(s2, aud, gain,
                                            [NoLoop EXCEPT
                                               !.cursor_frames = s2.cursor_frames,
                                               !.queued_ms = aud.base_ms,
                                               !.done = FALSE],
                                            MaxQueueSteps)
                         IN Done("update",
                                 [s2 EXCEPT !.cursor_frames = L.cursor_frames],
                                 FALSE, start, loads, L)

\* shutdown()
shutdown(st) ==
    Done("shutdown", State, st.playing /\ "stop_playback" \in st.callbacks, "none", 0,
         NoLoop)

MusicNone == Done("none", State, FALSE, "none", 0, NoLoop)

\* A call of the launcher music takes effect: the state, the record of the
\* call (with the state, the last playback callback and the launcher before
\* it), and the last of the two playback callbacks invoked.
MusicEffect(d) ==
    /\ state' = d.st
    /\ music_call' = [d EXCEPT !.st = state, !.before = playback, !.seen = launcher]
    /\ playback' = IF d.stop THEN "stop" ELSE IF d.start = "ok" THEN "start" ELSE playback
    /\ UNCHANGED <<billboard_vars, widescreen_vars, patch_vars, launcher>>

launcher_music_init(D) ==
    \E cfg \in D.configs, cbs \in D.callbacks :
       MusicEffect(Done("init", [state EXCEPT !.config = cfg, !.callbacks = cbs],
                        FALSE, "none", 0, NoLoop))

launcher_music_set_enabled(enabled) ==
    MusicEffect(Done("set_enabled", [state EXCEPT !.enabled = enabled],
                     FALSE, "none", 0, NoLoop))

launcher_music_update(D) ==
    \E aud \in D.audios, volume \in D.volumes :
       MusicEffect(update(state, launcher, aud, volume))

launcher_music_shutdown == MusicEffect(shutdown(state))

\* The launcher is shown or hidden, the game starts.
LauncherChanges ==
    /\ \E v \in BOOLEAN, g \in BOOLEAN :
          /\ launcher' = [visible |-> v, game_started |-> g]
          /\ launcher' # launcher
    /\ UNCHANGED <<billboard_vars, widescreen_vars, patch_vars, state, music_call,
                   playback>>

\* The start of the two patches: the statics of the hook are 0.0f.  The
\* launcher music starts with its state as constructed.
InitOther(D) ==
    /\ state = State
    /\ launcher \in (IF "launchers" \in DOMAIN D THEN D.launchers
                     ELSE {[visible |-> TRUE, game_started |-> FALSE]})
    /\ music_call = MusicNone
    /\ playback = "none"
    /\ config \in (IF "ar_options" \in DOMAIN D
                   THEN {[ar_option |-> o] : o \in D.ar_options}
                   ELSE {[ar_option |-> "Original"]})
    /\ window \in (IF "windows" \in DOMAIN D THEN D.windows ELSE {<<640, 480>>})
    /\ last_aspect = [last_original |-> F(0), last_result |-> F(0)]
    /\ aspect_call = AspectNone
    /\ rdram \in (IF "bytes" \in DOMAIN D THEN {RdramWith(b) : b \in D.bytes}
                  ELSE {RdramWith(0)})
    /\ ctx \in (IF "ctxs" \in DOMAIN D THEN D.ctxs ELSE {Ctx(0, K0BASE + 4096)})
    /\ patch_call = PatchNone

InitP(D) ==
    /\ InitOther(D)
    /\ mem \in [draw : D.draws, screen : D.screens, dl_state : D.dl_states,
                vp : D.vps, level : D.levels]
    /\ \E st \in D.states :
          /\ gdl = st.gdl
          /\ gfx_mem = st.gfx_mem
          /\ pool_mem = st.pool_mem
          /\ s_alloc = st.s_alloc
          /\ g_billboard_frame_count = st.frame_count
          /\ g_prev_quads = st.quads
          /\ g_quad_stamp = st.stamp
          /\ handed_out = HandedBefore(st)
          /\ \E release \in D.builds :
                /\ NDEBUG = release
                /\ flags \in (IF "toggles" \in DOMAIN D THEN D.toggles
                               ELSE {InitFlags(release)})
                /\ g_log_73f17c_ortho \in (IF "logs" \in DOMAIN D THEN D.logs
                                            ELSE {~release})
                /\ stats = [s \in AllSites |->
                               IF s = st.past.site THEN StatsOfPast(st.past, release)
                               ELSE BillboardStats]
                /\ s_call_count = IF ~release /\ st.past.site = "73f17c"
                                  THEN st.past.calls ELSE 0
    /\ id_call = IdNone
    /\ hook_pc = HookIdle
    /\ outcome = "None"
    /\ trace = RewriteTrace
    /\ obs = ObsNone
    /\ alloc_call = AllocNone
    /\ calls = 0

\* Faulty variant: only +0x18 is zeroed at every site.
ZeroScale_FirstWordOnly(site, mi) == [mi EXCEPT !.draw.scale = 0]

\* The scale arguments on the stack zeroed: +0x18, and +0x1C at the sites
\* that read a second scale.
ZeroScale(site, mi) ==
    IF site \in {"740094", "740820"}
    THEN [mi EXCEPT !.draw.scale = 0, !.draw.scale_y = 0]
    ELSE [mi EXCEPT !.draw.scale = 0]

\* Faulty variant: the rewrite toggle is looked at before the disable
\* toggle.
HookPath_RewriteFirst(fl) ==
    IF ~fl.rewrite THEN "skip" ELSE IF fl.disable THEN "disabled" ELSE "rewrite"

\* The path a hook takes: the disable toggle first, then the rewrite toggle.
HookPath(fl) ==
    IF fl.disable THEN "disabled" ELSE IF ~fl.rewrite THEN "skip" ELSE "rewrite"

\* The stack words a hook zeroes.
ScaleWords(site) ==
    IF site \in {"740094", "740820"} THEN {"+0x18", "+0x1C"} ELSE {"+0x18"}

\* One hook of a draw site as a function of what it reads: the disable
\* toggle, the rewrite toggle, the engine with the site's configuration, the
\* statistics, the log lines, and the scale zeroed when the original draw is
\* suppressed.  st is the program state, mi the memory image, fl the toggles
\* of the site, s its statistics, count the call counter of 73f17c.
HookCall(site, st, mi, fl, s, log, debug, count) ==
    IF HookPath(fl) = "disabled"
    THEN [st |-> st, mem |-> ZeroScale(site, mi), stats |-> s, count |-> count,
          outcome |-> "None", trace |-> RewriteTrace,
          obs |-> [ObsNone EXCEPT !.site = site,
                                  !.stack_writes = ScaleWords(site),
                                  !.stats_after_log = s]]
    ELSE IF HookPath(fl) = "skip"
    THEN [st |-> st, mem |-> mi, stats |-> record_stat_skip(s, st.frame_count),
          count |-> count, outcome |-> "None", trace |-> RewriteTrace,
          obs |-> [ObsNone EXCEPT
                     !.site = site,
                     !.printed = StatsReport(site, Skipped(s), st.frame_count, log,
                                             st.s_alloc.used_slots),
                     !.stats_after_log = record_stat_skip(s, st.frame_count)]]
    ELSE LET r == rewrite_billboard_ortho_quad(st, SiteConfig(site, mi.draw),
                                               CallInput(mi))
             suppressed == (r.outcome = "Emitted") /\ fl.suppress
             after == record_stat(s, r.outcome, suppressed, r.trace, r.frame_count)
         IN IF r.outcome = "NoReturn"
            THEN [st |-> StateOf(r), mem |-> mi, stats |-> s, count |-> count,
                  outcome |-> "NoReturn", trace |-> RewriteTrace,
                  obs |-> [ObsNone EXCEPT !.site = site, !.engine = TRUE,
                                          !.reads = r.reads,
                                          !.stats_after_log = s]]
            ELSE
            [st |-> StateOf(r),
             mem |-> IF suppressed THEN ZeroScale(site, mi) ELSE mi,
             stats |-> after,
             count |-> IF site = "73f17c" /\ debug /\ log THEN count + 1 ELSE count,
             outcome |-> r.outcome, trace |-> r.trace,
             obs |-> [site |-> site, reads |-> r.reads,
                      cache_hit |-> r.cache_hit,
                      reached_cache |-> r.reached_cache,
                      cur |-> r.cur, prev |-> r.prev, q |-> r.q,
                      handed |-> r.handed, verts_addr |-> r.verts_addr,
                      written |-> r.written, engine |-> TRUE,
                      stack_writes |-> IF suppressed THEN ScaleWords(site) ELSE {},
                      printed |->
                          StatsReport(site,
                                      Counted(s, r.outcome, suppressed, r.trace),
                                      r.frame_count, log, r.s_alloc.used_slots)
                          \o OrthoLog(site, debug, log, count, r.outcome, r.trace,
                                      fl.suppress),
                      stats_after_log |-> after]]

\* The state a hook call leaves, h being what HookCall returns.
HookEffect(site, h) ==
    /\ s_alloc' = h.st.s_alloc
    /\ g_billboard_frame_count' = h.st.frame_count
    /\ g_prev_quads' = h.st.quads
    /\ g_quad_stamp' = h.st.stamp
    /\ gdl' = h.st.gdl
    /\ gfx_mem' = h.st.gfx_mem
    /\ pool_mem' = h.st.pool_mem
    /\ mem' = h.mem
    /\ stats' = [stats EXCEPT ![site] = h.stats]
    /\ s_call_count' = h.count
    /\ outcome' = h.outcome
    /\ trace' = h.trace
    /\ obs' = h.obs
    /\ hook_pc' = IF h.outcome = "NoReturn" THEN [at |-> "wrap_loop", site |-> site]
                  ELSE HookIdle
    /\ handed_out' = IF h.obs.handed.slots = 0 THEN handed_out
                     ELSE Append(handed_out,
                                 [frame |-> h.st.frame_count,
                                  addr |-> h.obs.handed.addr,
                                  bytes |-> h.obs.handed.slots * BILLBOARD_SLOT_BYTES])

\* Faulty variant: the stack is written inside the debug-log block, so only
\* with the log toggle set.
sssv_hook_billboard_LogGated(site, max_calls) ==
    /\ hook_pc = HookIdle
    /\ calls < max_calls
    /\ calls' = calls + 1
    /\ LET h == HookCall(site, ProgState, mem, flags[site], stats[site],
                         g_log_73f17c_ortho, ~NDEBUG, s_call_count)
       IN HookEffect(site, IF g_log_73f17c_ortho \/ ~h.obs.engine THEN h
                           ELSE [h EXCEPT !.mem = mem, !.obs.stack_writes = {}])
    /\ UNCHANGED <<other_vars, alloc_call, flags, g_log_73f17c_ortho, NDEBUG, id_call>>

\* A hook runs: the program state, the memory image and the statistics of
\* the site become what the hook leaves.
sssv_hook_billboard(site, max_calls) ==
    /\ hook_pc = HookIdle
    /\ calls < max_calls
    /\ calls' = calls + 1
    /\ HookEffect(site, HookCall(site, ProgState, mem, flags[site], stats[site],
                                 g_log_73f17c_ortho, ~NDEBUG, s_call_count))
    /\ UNCHANGED <<other_vars, alloc_call, flags, g_log_73f17c_ortho, NDEBUG, id_call>>

\* A hook in two steps, for a setter running on another thread.  The first
\* step is the entry of the hook, where the disable and rewrite toggles are
\* read; the second is the rest of the call.  The toggles are plain bool
\* objects written by the setters without synchronisation, so the value the
\* hook uses for suppress_original and for the log toggle, which the source
\* reads after the engine has returned, is the one at entry (a load moved up
\* or kept in a register) or the one stored last.
sssv_hook_billboard_enter(site, max_calls) ==
    /\ hook_pc = HookIdle
    /\ calls < max_calls
    /\ hook_pc' = [at |-> "entered", site |-> site, flags |-> flags[site],
                   log |-> g_log_73f17c_ortho]
    /\ UNCHANGED <<other_vars, mem, gdl, gfx_mem, pool_mem, s_alloc, g_billboard_frame_count,
                   g_prev_quads, g_quad_stamp, flags, stats, outcome, trace, obs,
                   alloc_call, handed_out, calls, g_log_73f17c_ortho, NDEBUG,
                   s_call_count, id_call>>

\* The rest of the call after its entry; the hook is idle again afterwards
\* unless the engine does not return.
sssv_hook_billboard_rest(site) ==
    /\ hook_pc.at = "entered"
    /\ hook_pc.site = site
    /\ calls' = calls + 1
    /\ \E suppress \in {hook_pc.flags.suppress, flags[site].suppress},
          log \in {hook_pc.log, g_log_73f17c_ortho} :
          HookEffect(site,
                     HookCall(site, ProgState, mem,
                              [hook_pc.flags EXCEPT !.suppress = suppress],
                              stats[site], log, ~NDEBUG, s_call_count))
    /\ UNCHANGED <<other_vars, alloc_call, flags, g_log_73f17c_ortho, NDEBUG, id_call>>

\* The hook at 6fa3a4 only counts: with the render-disable toggle set it
\* counts a suppression and stores 100 in the stack word +0x10.
sssv_log_billboard_draw_6fa3a4(max_calls) ==
    /\ hook_pc = HookIdle
    /\ calls < max_calls
    /\ calls' = calls + 1
    /\ LET counted == [stats["6fa3a4"] EXCEPT !.interval_calls = @ + 1]
           logged == maybe_log_stats(counted, g_billboard_frame_count)
           disabled == flags["6fa3a4"].disable
       IN /\ stats' = [stats EXCEPT
                         !["6fa3a4"] = IF disabled
                                       THEN [logged EXCEPT !.interval_suppresses = @ + 1]
                                       ELSE logged]
          /\ mem' = IF disabled THEN [mem EXCEPT !.draw.half_w = 100] ELSE mem
          /\ obs' = [ObsNone EXCEPT
                       !.site = "6fa3a4",
                       !.stack_writes = IF disabled THEN {"+0x10"} ELSE {},
                       !.printed = StatsReport("6fa3a4", counted,
                                               g_billboard_frame_count,
                                               g_log_73f17c_ortho,
                                               s_alloc.used_slots),
                       !.stats_after_log = logged]
    /\ outcome' = "None"
    /\ trace' = RewriteTrace
    /\ UNCHANGED <<other_vars, gdl, gfx_mem, pool_mem, s_alloc, g_billboard_frame_count,
                   g_prev_quads, g_quad_stamp, flags, alloc_call, handed_out,
                   g_log_73f17c_ortho, NDEBUG, s_call_count, id_call, hook_pc>>

\* allocate_billboard_data called on its own with a byte count.
AllocCall(bytes_needed, out_before, max_calls) ==
    /\ calls < max_calls
    /\ LET al == allocate_billboard_data(s_alloc.used_slots, bytes_needed, out_before)
       IN /\ s_alloc' = [s_alloc EXCEPT !.used_slots = al.used_slots]
          /\ alloc_call' = [bytes |-> bytes_needed, out_before |-> out_before,
                            ok |-> al.ok, out_addr |-> al.out_addr]
          /\ handed_out' = IF al.ok
                           THEN Append(handed_out,
                                       [frame |-> g_billboard_frame_count,
                                        addr |-> al.out_addr,
                                        bytes |-> SlotsNeeded(bytes_needed)
                                                  * BILLBOARD_SLOT_BYTES])
                           ELSE handed_out
    /\ calls' = calls + 1
    /\ UNCHANGED <<other_vars, mem, gdl, gfx_mem, pool_mem, g_billboard_frame_count,
                   g_prev_quads, g_quad_stamp, flags, stats, outcome, trace, obs,
                   g_log_73f17c_ortho, NDEBUG, s_call_count, id_call, hook_pc>>

\* billboard_group_id called as the engine calls it, for two world positions
\* a and b with the same remaining fields: the coordinates shifted right by
\* shift, then hashed with the salt.
IdentityCall(a, b, w, h, sc, shift, salt, max_calls) ==
    /\ calls < max_calls
    /\ calls' = calls + 1
    /\ LET cfg == [hash_coord_shift |-> shift, hash_includes_scale |-> TRUE,
                   hash_salt |-> salt]
           ma == [world_x |-> a[1], world_y |-> a[2], world_z |-> a[3],
                  half_w |-> w, half_h |-> h, scale |-> sc]
           mb == [world_x |-> b[1], world_y |-> b[2], world_z |-> b[3],
                  half_w |-> w, half_h |-> h, scale |-> sc]
       IN id_call' = [made |-> TRUE, a |-> a, b |-> b, w |-> w, h |-> h, s |-> sc,
                      shift |-> shift, salt |-> salt,
                      qa |-> Quantized(cfg, ma), qb |-> Quantized(cfg, mb),
                      ha |-> GroupOf(cfg, ma, Quantized(cfg, ma)),
                      hb |-> GroupOf(cfg, mb, Quantized(cfg, mb))]
    /\ UNCHANGED <<other_vars, mem, gdl, gfx_mem, pool_mem, s_alloc, g_billboard_frame_count,
                   g_prev_quads, g_quad_stamp, flags, stats, outcome, trace, obs,
                   alloc_call, handed_out, g_log_73f17c_ortho, NDEBUG,
                   s_call_count, hook_pc>>

\* The group ids the five sites compute from the same six hashed fields
\* f = <<q_x, q_y, q_z, half_w, half_h, hash_scale>>, each with its own salt.
SaltCall(f, max_calls) ==
    /\ calls < max_calls
    /\ calls' = calls + 1
    /\ id_call' = [made |-> FALSE, fields |-> f,
                   ids |-> [site \in HookSites |->
                              billboard_group_id(f[1], f[2], f[3], f[4], f[5], f[6],
                                                 SiteConfig(site, mem.draw).hash_salt)]]
    /\ UNCHANGED <<other_vars, mem, gdl, gfx_mem, pool_mem, s_alloc, g_billboard_frame_count,
                   g_prev_quads, g_quad_stamp, flags, stats, outcome, trace, obs,
                   alloc_call, handed_out, g_log_73f17c_ortho, NDEBUG,
                   s_call_count, hook_pc>>

\* set_disable_*_render, set_rewrite_*_ortho, set_rewrite_*_suppress_original
set_toggle(site, field, v) ==
    /\ field \in (IF site \in HookSites THEN {"disable", "rewrite", "suppress"}
                  ELSE {"disable"})
    /\ flags' = [flags EXCEPT ![site] = [@ EXCEPT ![field] = v]]
    /\ UNCHANGED <<other_vars, mem, gdl, gfx_mem, pool_mem, s_alloc, g_billboard_frame_count,
                   g_prev_quads, g_quad_stamp, stats, outcome, trace, obs,
                   alloc_call, handed_out, calls, g_log_73f17c_ortho, NDEBUG,
                   s_call_count, id_call, hook_pc>>

\* set_log_73f17c_ortho
set_log_73f17c_ortho(v) ==
    /\ g_log_73f17c_ortho' = v
    /\ UNCHANGED <<other_vars, mem, gdl, gfx_mem, pool_mem, s_alloc, g_billboard_frame_count,
                   g_prev_quads, g_quad_stamp, flags, stats, outcome, trace, obs,
                   alloc_call, handed_out, calls, NDEBUG, s_call_count, id_call, hook_pc>>

\* The game between two calls: it owns the memory image and the cursor.
GameRuns(new_mem, new_gdl) ==
    /\ hook_pc = HookIdle
    /\ mem' = new_mem
    /\ gdl' = new_gdl
    /\ outcome' = "None"
    /\ trace' = RewriteTrace
    /\ obs' = ObsNone
    /\ UNCHANGED <<other_vars, gfx_mem, pool_mem, s_alloc, g_billboard_frame_count,
                   g_prev_quads, g_quad_stamp, flags, stats, alloc_call,
                   handed_out, calls, g_log_73f17c_ortho, NDEBUG, s_call_count,
                   id_call, hook_pc>>

GameSetDraw(D) == \E d \in D.draws : GameRuns([mem EXCEPT !.draw = d], gdl)

GameSetScreen(D) == \E v \in D.screens : GameRuns([mem EXCEPT !.screen = v], gdl)

GameSetDlState(D) == \E v \in D.dl_states : GameRuns([mem EXCEPT !.dl_state = v], gdl)

GameSetLevelConfig(D) == \E v \in D.levels : GameRuns([mem EXCEPT !.level = v], gdl)

GameSetViewProj(D) == \E v \in D.vps : GameRuns([mem EXCEPT !.vp = v], gdl)

GameSetGdl(D) == \E v \in D.gdls : GameRuns(mem, v)

(***************************************************************************)
(* Values the game stores.                                                 *)
(***************************************************************************)
\* world (0, 0, -10.0) in 16.16, half sizes 32, scale 8.
DrawA == [half_w |-> 32, half_h |-> 32, scale |-> 8, scale_y |-> 8,
          arg20 |-> 0, arg24 |-> 0,
          world_x |-> 0, world_y |-> 0, world_z |-> -655360]

\* Another sprite: different half width, so a different group id.
DrawB == [DrawA EXCEPT !.half_w = 16]

\* World (1.0, 915.0, -10.0): hashes to the group id of DrawA at the sites
\* that do not quantize, with a different signature.
DrawC == [DrawA EXCEPT !.world_x = 65536, !.world_y = 59965440]

DrawNoScale == [DrawA EXCEPT !.half_w = 10, !.half_h = 10, !.scale = 0]

DrawNoScaleY == [DrawA EXCEPT !.scale_y = 0]

\* World (0, 0, +5.0).
DrawBehind == [DrawA EXCEPT !.world_z = 327680]

\* The ninth argument non-zero: at 740820 the horizontal centre is wrapped.
DrawWrap == [DrawA EXCEPT !.arg20 = 1]

\* Wrapped, with the offsets clamped to 2 * 3.
DrawWrapClamped == [DrawA EXCEPT !.arg20 = 1, !.arg24 = 3]

\* World (0, 0, -3.0): exactly at the near bound.
DrawAtNear == [DrawA EXCEPT !.world_z = -196608]

\* World (0, 0, -3.0 + 2^-16): the first 16.16 depth nearer than the bound.
DrawInsideNear == [DrawA EXCEPT !.world_z = -196607]

\* World (0, 0, -3.5): just beyond the bound.
DrawBeyondNear == [DrawA EXCEPT !.world_z = -229376]

Screen320 == <<320, 240>>

Screen640 == <<640, 480>>

ScreenNone == <<0, 240>>

TokenA == K0BASE + 2097152          \* 0x80200000

TokenB == K0BASE + 2359296          \* 0x80240000

VpIdentity == write_identity

\* m(3,3) = 0: clip_w = 0.
VpClipZero == [write_identity EXCEPT ![16] = F(0)]

\* m(0,3) = 1, m(3,0) = 100000: the centre lands far left of the screen.
VpOffscreen == [write_identity EXCEPT ![4] = F(1), ![13] = F(100000)]

\* m(0,3) = 1, m(3,0) = -100000: the centre lands far right of the screen.
VpOffscreenRight == [write_identity EXCEPT ![4] = F(1), ![13] = F(-100000)]

\* m(0,3) = 1, m(3,0) = +inf: the centre is -inf.
VpInfLeft == [write_identity EXCEPT ![4] = F(1), ![13] = <<1, 0>>]

\* m(0,3) = 1, m(3,0) = -inf: the centre is +inf.
VpInfRight == [write_identity EXCEPT ![4] = F(1), ![13] = <<-1, 0>>]

\* m(2,3) is NaN: cam_z is NaN.
VpNaN == [write_identity EXCEPT ![12] = NaN]

Level(fov) == [fov |-> fov, bias |-> 0]

\* Cursors: null, inside RDRAM, with exactly kEmittedBytes left, with room
\* for the words written but less than kEmittedBytes, one command before
\* the end, at the end of RDRAM, in the expansion area.
GdlNull == 0

GdlMid == K0BASE + 1048576

GdlFit == K0BASE + (RDRAM_SIZE_BYTES - kEmittedBytes)

GdlShort == K0BASE + (RDRAM_SIZE_BYTES - kEmittedBytes + GfxCommandBytes)

GdlLast == K0BASE + (RDRAM_SIZE_BYTES - GfxCommandBytes)

GdlEnd == K0BASE + RDRAM_SIZE_BYTES

GdlPool == BILLBOARD_POOL_VRAM

BaseMem == [draw |-> DrawA, screen |-> Screen320, dl_state |-> TokenA,
            vp |-> VpIdentity, level |-> Level(F(60))]

(***************************************************************************)
(* Spec: frames and the scratch pool.  One site draws one billboard while  *)
(* the game changes the frame token and the screen size; one initial state *)
(* is a frame that has nearly used up the pool.                            *)
(***************************************************************************)
MaxCalls == 3

\* The number of warm calls after the cold one that fills the pool exactly
\* (14 + 1363 * 6 = 8192), that leaves room for one more vertex block, and
\* for two more.
FullPoolRun ==
    (BILLBOARD_POOL_SLOTS - SlotsNeeded((2 * kMatrixBytes) + kVertexBytes))
       \div SlotsNeeded(kVertexBytes)

LastBlockRun == FullPoolRun - 1

NearlyFullRun == FullPoolRun - 2

DFrames ==
    [builds |-> {FALSE, TRUE},
     sites |-> {"73f17c"},
     draws |-> {DrawA},
     screens |-> {Screen320, Screen640},
     dl_states |-> {0, TokenA, TokenB},
     vps |-> {VpIdentity},
     levels |-> {Level(F(60))},
     states |-> {FreshState(GdlMid),
                 MidFrameState("73f17c", BaseMem, DrawA, DrawA, NearlyFullRun, GdlMid)}]

Init == InitP(DFrames)

Next ==
    \/ \E site \in DFrames.sites : sssv_hook_billboard(site, MaxCalls)
    \/ GameSetDraw(DFrames)
    \/ GameSetScreen(DFrames)
    \/ GameSetDlState(DFrames)

Spec == Init /\ [][Next]_vars

\* C6: the number of used pool slots is always between 0 and 8192, and while
\* the stored frame token stays the same it never decreases.
C6_UsedSlotsBounded ==
    /\ [](s_alloc.used_slots \in 0..BILLBOARD_POOL_SLOTS)
    /\ [][/\ s_alloc'.used_slots \in 0..BILLBOARD_POOL_SLOTS
          /\ (s_alloc'.dl_state = s_alloc.dl_state
                  => s_alloc'.used_slots >= s_alloc.used_slots)]_vars

\* The pool is used up to the last slots and a further call is turned away.
C6_Witness ==
    /\ outcome = "AllocFail"
    /\ s_alloc.used_slots + SlotsNeeded(kVertexBytes) > BILLBOARD_POOL_SLOTS
    /\ s_alloc.used_slots > 0

\* C8: a call that reaches frame-change detection with the stored token
\* changes nothing through the reset (frame count and token stay, used_slots
\* only grows by the call's own allocation, the cached matrices and
\* view-projection stay); with a different token it stores the token, adds
\* one to g_billboard_frame_count, and starts from used_slots = 0 with the
\* matrices and view-projection caches cleared.
C8_FrameChangeDetection ==
    [][(calls' = calls + 1 /\ "dl_state" \in obs'.reads /\ mem.dl_state # 0) =>
          IF mem.dl_state = s_alloc.dl_state
          THEN /\ g_billboard_frame_count' = g_billboard_frame_count
               /\ s_alloc'.dl_state = s_alloc.dl_state
               /\ s_alloc'.used_slots = s_alloc.used_slots + obs'.handed.slots
               /\ (s_alloc.matrices_cached => s_alloc'.matrices_cached)
               /\ (s_alloc.vp_cached =>
                      s_alloc'.vp_cached /\ s_alloc'.vp_mtx = s_alloc.vp_mtx)
          ELSE /\ g_billboard_frame_count' = g_billboard_frame_count + 1
               /\ s_alloc'.dl_state = mem.dl_state
               /\ s_alloc'.used_slots = obs'.handed.slots
               /\ ~obs'.cache_hit
               /\ (s_alloc'.matrices_cached =>
                      obs'.handed.bytes = (2 * kMatrixBytes) + kVertexBytes)
               /\ (s_alloc'.vp_cached => "viewproj" \in obs'.reads)]_vars

\* A second frame has begun in the middle of a run: the pool starts again.
C8_Witness ==
    /\ outcome = "Emitted"
    /\ g_billboard_frame_count = 2
    /\ s_alloc.used_slots = SlotsNeeded((2 * kMatrixBytes) + kVertexBytes)

\* C9: the scratch ranges handed out lie inside the pool, and two ranges
\* handed out under the same frame count never overlap.
C9_RangesDisjoint ==
    \A i, j \in 1..Len(handed_out) :
       LET a == handed_out[i]
           b == handed_out[j]
       IN /\ a.addr >= BILLBOARD_POOL_VRAM
          /\ a.addr + a.bytes
                <= BILLBOARD_POOL_VRAM + BILLBOARD_POOL_SLOTS * BILLBOARD_SLOT_BYTES
          /\ (i < j /\ a.frame = b.frame)
                => (a.addr + a.bytes <= b.addr \/ b.addr + b.bytes <= a.addr)

\* The same address is handed out twice, in different frames.
C9_Witness ==
    \E i, j \in 1..Len(handed_out) :
       /\ i < j
       /\ handed_out[i].addr = handed_out[j].addr
       /\ handed_out[i].frame # handed_out[j].frame

(***************************************************************************)
(* SpecAlloc: allocate_billboard_data on its own, called with byte counts  *)
(* from states of a frame in progress.                                     *)
(***************************************************************************)
MaxAllocCalls == 3

AllocSizes == {1, 16, 17, kVertexBytes, (2 * kMatrixBytes) + kVertexBytes}

DAlloc ==
    [builds |-> {TRUE},
     draws |-> {DrawA}, screens |-> {Screen320}, dl_states |-> {TokenA},
     vps |-> {VpIdentity}, levels |-> {Level(F(60))},
     states |-> {FreshState(GdlMid),
                 MidFrameState("73f17c", BaseMem, DrawA, DrawA, NearlyFullRun, GdlMid),
                 MidFrameState("73f17c", BaseMem, DrawA, DrawA, LastBlockRun, GdlMid)}]

InitAlloc == InitP(DAlloc)

NextAlloc ==
    \E bytes_needed \in AllocSizes, out_before \in {0, alloc_call.out_addr} :
        AllocCall(bytes_needed, out_before, MaxAllocCalls)

SpecAlloc == InitAlloc /\ [][NextAlloc]_vars

\* C7: the byte count is rounded up to whole 16-byte slots; when the rounded
\* request does not fit in the 8192 slots the call fails and changes neither
\* used_slots nor the output address; otherwise it returns
\* 0x80900000 + 16 * (used_slots before) and adds the rounded slot count.
C7_AllocateRoundsUp ==
    [][(calls' = calls + 1) =>
          LET bytes == alloc_call'.bytes
              slots == CHOOSE k \in 0..bytes :
                          k * BILLBOARD_SLOT_BYTES >= bytes
                          /\ (k - 1) * BILLBOARD_SLOT_BYTES < bytes
          IN IF s_alloc.used_slots + slots > BILLBOARD_POOL_SLOTS
             THEN /\ ~alloc_call'.ok
                  /\ s_alloc'.used_slots = s_alloc.used_slots
                  /\ alloc_call'.out_addr = alloc_call'.out_before
             ELSE /\ alloc_call'.ok
                  /\ alloc_call'.out_addr
                        = BILLBOARD_POOL_VRAM + BILLBOARD_SLOT_BYTES * s_alloc.used_slots
                  /\ s_alloc'.used_slots = s_alloc.used_slots + slots]_vars

\* A request is refused while slots are still free, and the caller's address,
\* the result of an earlier call, is left as it was.
C7_Witness ==
    /\ ~alloc_call.ok
    /\ alloc_call.bytes > 0
    /\ s_alloc.used_slots < BILLBOARD_POOL_SLOTS
    /\ alloc_call.out_addr # 0

(***************************************************************************)
(* SpecCursor: the display-list cursor.  The game moves the cursor between *)
(* calls: null, inside RDRAM, near its end, at its end, beyond it.  The    *)
(* cursors are null or in KSEG0, where vram_to_phys_u32 is defined.        *)
(***************************************************************************)
MaxCursorCalls == 2

DCursor ==
    [builds |-> {FALSE, TRUE},
     sites |-> {"73f17c"},
     draws |-> {DrawA, DrawNoScale},
     screens |-> {Screen320}, dl_states |-> {TokenA},
     vps |-> {VpIdentity}, levels |-> {Level(F(60))},
     gdls |-> {GdlNull, GdlMid, GdlFit, GdlShort, GdlLast, GdlEnd, GdlPool},
     states |-> {FreshState(GdlMid), FreshState(GdlNull)}]

InitCursor == InitP(DCursor)

NextCursor ==
    \/ \E site \in DCursor.sites : sssv_hook_billboard(site, MaxCursorCalls)
    \/ GameSetGdl(DCursor)
    \/ GameSetDraw(DCursor)

SpecCursor == InitCursor /\ [][NextCursor]_vars

\* C1: a call that does not return Emitted leaves the cursor slot and the
\* display-list memory as they were; a call that returns Emitted has written
\* the whole command sequence, one record after the other from the old
\* cursor, nothing else, and has moved the cursor behind the last record.
C1_NoPartialEmission ==
    [][(calls' = calls + 1 /\ outcome' # "None") =>
          IF outcome' = "Emitted"
          THEN LET from == vram_to_phys_u32(gdl)
                   n == (gdl' - gdl) \div GfxCommandBytes
                   at == {from + GfxCommandBytes * (k - 1) : k \in 1..n}
                   firsts == SelectSeq([k \in 1..n |->
                                          gfx_mem'[from + GfxCommandBytes * (k - 1)]],
                                       LAMBDA w : w.word = 1)
               IN /\ gdl' > gdl
                  /\ gdl' = gdl + GfxCommandBytes * n
                  /\ at \subseteq DOMAIN gfx_mem'
                  /\ \A o \in DOMAIN gfx_mem' \ at :
                        o \in DOMAIN gfx_mem /\ gfx_mem'[o] = gfx_mem[o]
                  /\ [k \in 1..Len(firsts) |-> firsts[k].op]
                       = << "SETPRIMDEPTH", "gEXEnable", "gEXSetRDRAMExtended",
                            "gEXPushOtherMode", "SETOTHERMODE_H_TP_PERSP",
                            "gEXPushProjectionMatrix", "gEXMatrixFloat",
                            "gEXMatrixFloat", "gEXSetProjMatrixFloat",
                            "gEXSetViewMatrixFloat", "gEXMatrixGroup", "gEXVertex",
                            "TRI2", "TRI2", "POPMTX", "gEXPopMatrixGroup",
                            "gEXPopProjectionMatrix", "gEXSetProjMatrixFloat",
                            "gEXSetViewMatrixFloat", "gEXSetRDRAMExtended",
                            "gEXPopOtherMode" >>
          ELSE gdl' = gdl /\ gfx_mem' = gfx_mem]_vars

\* A call is turned away for lack of room after an earlier call has emitted.
C1_Witness ==
    /\ outcome = "GfxCapacityFail"
    /\ gfx_mem # <<>>

\* C2, as stated: an Emitted call advances the cursor by kEmittedBytes = 272
\* bytes (34 records of 8 bytes).
C2_AdvanceIsEmittedBytes ==
    [][(calls' = calls + 1 /\ outcome' = "Emitted") =>
          (gdl' = gdl + kEmittedBytes /\ kEmittedBytes = 272)]_vars

\* The first call emits from the cursor GdlMid and leaves it 25 records
\* (200 bytes) further.
C2_Witness ==
    /\ calls = 1
    /\ outcome = "Emitted"
    /\ gdl = GdlMid + (obs.written * GfxCommandBytes)
    /\ obs.written * GfxCommandBytes = 200

\* C3: a call that reaches the cursor returns GfxPtrFail when the cursor is
\* null or at or beyond 0x800000, GfxCapacityFail when fewer than 272 bytes
\* remain, both without writing; memory and cursor change only with a valid
\* cursor and at least 272 bytes of room; every record written and the
\* advanced cursor lie inside the 8 MiB.
C3_WritesInsideRdram ==
    [][(calls' = calls + 1 /\ outcome' # "None") =>
          LET valid == gdl # 0 /\ vram_to_phys_u32(gdl) < RDRAM_SIZE_BYTES
              room == RDRAM_SIZE_BYTES - vram_to_phys_u32(gdl)
          IN /\ (gfx_mem' # gfx_mem \/ gdl' # gdl) => (valid /\ room >= 272)
             /\ obs'.reached_cache =>
                   outcome' = IF ~valid THEN "GfxPtrFail"
                              ELSE IF room < 272 THEN "GfxCapacityFail"
                              ELSE "Emitted"
             /\ outcome' \in {"GfxPtrFail", "GfxCapacityFail"} =>
                   (gfx_mem' = gfx_mem /\ gdl' = gdl)
             /\ \A o \in DOMAIN gfx_mem' :
                   0 <= o /\ o + GfxCommandBytes <= RDRAM_SIZE_BYTES
             /\ outcome' = "Emitted" =>
                   vram_to_phys_u32(gdl') <= RDRAM_SIZE_BYTES]_vars

\* The records have been written into the last 272 bytes of RDRAM.
C3_Witness ==
    /\ outcome = "Emitted"
    /\ RDRAM_SIZE_BYTES - vram_to_phys_u32(gdl) < kEmittedBytes

\* What the display-list processor keeps while it runs commands: the depth
\* of the other-mode, projection, modelview and matrix-group stacks
\* relative to the start, whether a pop came before its push, whether
\* extended addressing is on, and the extended projection and view matrix.
DlStart ==
    [othermode |-> 0, projection |-> 0, modelview |-> 0, group |-> 0,
     underflow |-> FALSE, extended |-> FALSE, ex_proj |-> 0, ex_view |-> 0]

DlPop(d, field) ==
    [d EXCEPT ![field] = @ - 1, !.underflow = @ \/ d[field] = 0]

\* One record run; the second word of a two-word command changes nothing.
DlStep(d, c) ==
    IF c.word # 1 THEN d
    ELSE CASE c.op = "gEXSetRDRAMExtended" -> [d EXCEPT !.extended = (c.a[1] = 1)]
           [] c.op = "gEXPushOtherMode" -> [d EXCEPT !.othermode = @ + 1]
           [] c.op = "gEXPopOtherMode" -> DlPop(d, "othermode")
           [] c.op = "gEXPushProjectionMatrix" -> [d EXCEPT !.projection = @ + 1]
           [] c.op = "gEXPopProjectionMatrix" -> DlPop(d, "projection")
           [] c.op = "gEXMatrixFloat" ->
                 IF c.a[2] = "PUSH_LOAD_MODELVIEW"
                 THEN [d EXCEPT !.modelview = @ + 1] ELSE d
           [] c.op = "POPMTX" -> DlPop(d, "modelview")
           [] c.op = "gEXMatrixGroup" ->
                 IF c.a[2] = "PUSH" THEN [d EXCEPT !.group = @ + 1] ELSE d
           [] c.op = "gEXPopMatrixGroup" -> DlPop(d, "group")
           [] c.op = "gEXSetProjMatrixFloat" -> [d EXCEPT !.ex_proj = c.a[1]]
           [] c.op = "gEXSetViewMatrixFloat" -> [d EXCEPT !.ex_view = c.a[1]]
           [] OTHER -> d

RECURSIVE DlRun(_, _, _)
DlRun(d, block, i) ==
    IF i > Len(block) THEN d ELSE DlRun(DlStep(d, block[i]), block, i + 1)

\* C19: the records an emission writes, run in order, leave the depth of
\* the other-mode, projection, modelview and matrix-group stacks where it
\* was, never pop before the push, leave extended addressing off although
\* the sequence switches it on, and leave the extended projection and view
\* matrix both set to the identity matrix of the scratch pool.  As every
\* emission is balanced, so is any number of them.
C19_EmissionBalanced ==
    [][(calls' = calls + 1 /\ outcome' = "Emitted") =>
          LET phys == vram_to_phys_u32(gdl)
              block == [k \in 1..obs'.written |->
                          gfx_mem'[phys + (GfxCommandBytes * (k - 1))]]
              fin == DlRun(DlStart, block, 1)
          IN /\ fin.othermode = 0 /\ fin.projection = 0
             /\ fin.modelview = 0 /\ fin.group = 0
             /\ ~fin.underflow
             /\ ~fin.extended
             /\ \E k \in 1..obs'.written :
                   block[k].op = "gEXSetRDRAMExtended" /\ block[k].a[1] = 1
             /\ fin.ex_proj = s_alloc'.view_mtx_addr
             /\ fin.ex_view = s_alloc'.view_mtx_addr
             /\ pool_mem'[s_alloc'.view_mtx_addr] = [kind |-> "mtx", v |-> write_identity]
             /\ \E k \in 1..obs'.written :
                   block[k].op = "gEXSetProjMatrixFloat"
                      /\ block[k].a[1] = s_alloc'.proj_mtx_addr]_vars

\* Two emissions one behind the other in the display list.
C19_Witness ==
    /\ calls = 2
    /\ outcome = "Emitted"
    /\ Cardinality(DOMAIN gfx_mem) = 2 * obs.written
    /\ obs.written > 0

(***************************************************************************)
(* SpecGates: the gates of one call.  The memory image holds every         *)
(* combination of arguments, screen size, frame token, view-projection and *)
(* field of view; the program state is fresh, in the middle of a frame, or *)
(* at the end of a frame that has used the whole pool.                     *)
(***************************************************************************)
MaxGateCalls == 1

DGates ==
    [builds |-> {FALSE, TRUE},
     sites |-> {"73f17c", "740094"},
     draws |-> {DrawA, DrawNoScale, DrawNoScaleY, DrawBehind},
     screens |-> {Screen320, ScreenNone},
     dl_states |-> {0, TokenA},
     vps |-> {VpIdentity, VpClipZero, VpOffscreen, VpNaN},
     levels |-> {Level(F(60)), Level(F(0)), Level(F(-60)), Level(NaN)},
     states |-> {FreshState(GdlMid), FreshState(GdlNull), FreshState(GdlShort),
                 MidFrameState("73f17c", BaseMem, DrawA, DrawA, 1, GdlMid),
                 MidFrameState("73f17c", BaseMem, DrawA, DrawA, FullPoolRun, GdlMid)}]

InitGates == InitP(DGates)

NextGates == \E site \in DGates.sites : sssv_hook_billboard(site, MaxGateCalls)

SpecGates == InitGates /\ [][NextGates]_vars

\* C4: the outcome of a call is the outcome of the first gate that fails, in
\* the order InvalidArgs, InvalidScreen, MissingDlState, AllocFail
\* (pre-check), BehindCamera, InvalidClipW, InvalidFov, InvalidSpriteScale,
\* Offscreen, AllocFail (allocation), GfxPtrFail, GfxCapacityFail; it is
\* Emitted exactly when no gate fails.
C4_FirstFailingGate ==
    [][(calls' = calls + 1 /\ outcome' # "None") =>
          LET cfg == SiteConfig(obs'.site, mem.draw)
              m == CallInput(mem)
              new_frame == m.dl_state # s_alloc.dl_state
              used == IF new_frame THEN 0 ELSE s_alloc.used_slots
              warm == /\ ~new_frame
                      /\ s_alloc.matrices_cached
                      /\ s_alloc.screen_w = m.screen_w
                      /\ s_alloc.screen_h = m.screen_h
              slots == IF warm THEN 6 ELSE 14
              vp == IF ~new_frame /\ s_alloc.vp_cached THEN s_alloc.vp_mtx ELSE m.vp
              cam_z == CamZ(vp, WorldF(m.world_x), WorldF(m.world_y), WorldF(m.world_z))
              clip_w == ClipW(vp, cam_z)
              scale_x == SpriteScale(cfg, m.scale, m.fov, cam_z)
              scale_y == SpriteScale(cfg, ScaleYRaw(cfg, m), m.fov, cam_z)
              rect == Rectangle(cfg, vp, WorldF(m.world_x), WorldF(m.world_y),
                                WorldF(m.world_z), cam_z, m.half_w, m.half_h,
                                scale_x, scale_y, m.screen_w, m.screen_h)
          IN outcome' =
               IF m.half_w <= 0 \/ m.half_h <= 0 \/ m.scale <= 0
                  \/ (cfg.dual_scale /\ m.scale_y <= 0)        THEN "InvalidArgs"
               ELSE IF m.screen_w <= 0 \/ m.screen_h <= 0      THEN "InvalidScreen"
               ELSE IF m.dl_state = 0                          THEN "MissingDlState"
               ELSE IF used + slots > BILLBOARD_POOL_SLOTS     THEN "AllocFail"
               ELSE IF ~FLe(cam_z, F(-3))                      THEN "BehindCamera"
               ELSE IF ~FGt(clip_w, F(0))                      THEN "InvalidClipW"
               ELSE IF InvalidFov(m.fov)                       THEN "InvalidFov"
               ELSE IF InvalidSpriteScale(scale_x, scale_y)    THEN "InvalidSpriteScale"
               ELSE IF Offscreen(rect, m.screen_w, m.screen_h) THEN "Offscreen"
               ELSE IF used + slots > BILLBOARD_POOL_SLOTS     THEN "AllocFail"
               ELSE IF gdl = 0 \/ vram_to_phys_u32(gdl) >= RDRAM_SIZE_BYTES
                                                               THEN "GfxPtrFail"
               ELSE IF RDRAM_SIZE_BYTES - vram_to_phys_u32(gdl) < kEmittedBytes
                                                               THEN "GfxCapacityFail"
               ELSE "Emitted"]_vars

\* The stage at which a call returns, by its outcome.
ReturnStage(name) ==
    CASE name = "InvalidArgs" -> 1
      [] name = "InvalidScreen" -> 2
      [] name = "MissingDlState" -> 3
      [] name = "AllocFail" -> 4
      [] name = "BehindCamera" -> 5
      [] name = "InvalidClipW" -> 6
      [] name = "InvalidFov" -> 7
      [] name = "InvalidSpriteScale" -> 8
      [] name = "Offscreen" -> 9
      [] name = "GfxPtrFail" -> 11
      [] name = "GfxCapacityFail" -> 12
      [] name = "Emitted" -> 13

\* C24: on every return path the caller's trace holds the values of this
\* call: the arguments always, and each intermediate value (screen size,
\* cam_z, clip_w, sprite scale, rectangle, identity hash) that the call has
\* computed before the gate it returns from; the values of later stages are
\* the initial zeros.
C24_TracePopulated ==
    [][(calls' = calls + 1 /\ obs'.engine /\ outcome' \in RewriteOutcomes) =>
          LET cfg == SiteConfig(obs'.site, mem.draw)
              m == CallInput(mem)
              at == ReturnStage(outcome')
              vp == IF m.dl_state = s_alloc.dl_state /\ s_alloc.vp_cached
                    THEN s_alloc.vp_mtx ELSE m.vp
              x == WorldF(m.world_x)
              y == WorldF(m.world_y)
              z == WorldF(m.world_z)
              cam_z == CamZ(vp, x, y, z)
              scale_x == SpriteScale(cfg, m.scale, m.fov, cam_z)
              scale_y == SpriteScale(cfg, ScaleYRaw(cfg, m), m.fov, cam_z)
              rect == Rectangle(cfg, vp, x, y, z, cam_z, m.half_w, m.half_h,
                                scale_x, scale_y, m.screen_w, m.screen_h)
              t == trace'
          IN /\ t.world_x = mem.draw.world_x /\ t.world_y = mem.draw.world_y
             /\ t.world_z = mem.draw.world_z
             /\ t.half_w = mem.draw.half_w /\ t.half_h = mem.draw.half_h
             /\ t.scale = mem.draw.scale
             /\ <<t.screen_w, t.screen_h>> = (IF at >= 2 THEN mem.screen ELSE <<0, 0>>)
             /\ t.cam_z = (IF at >= 5 THEN cam_z ELSE F(0))
             /\ t.clip_w = (IF at >= 6 THEN ClipW(vp, cam_z) ELSE F(0))
             /\ t.sprite_scale = (IF at >= 8 THEN scale_x ELSE F(0))
             /\ <<t.xl, t.yl, t.xh, t.yh>> =
                   (IF at >= 9 THEN <<rect.xl, rect.yl, rect.xh, rect.yh>>
                    ELSE <<F(0), F(0), F(0), F(0)>>)
             /\ t.group_id = (IF at >= 11 THEN GroupOf(cfg, m, Quantized(cfg, m))
                              ELSE <<0, 0>>)]_vars

\* A call has returned Offscreen: the trace holds its rectangle and no
\* identity hash.
C24_Witness ==
    /\ outcome = "Offscreen"
    /\ trace.world_z = mem.draw.world_z
    /\ trace.cam_z # F(0)
    /\ trace.xl # F(0)
    /\ trace.group_id = <<0, 0>>

\* The pool is full and the position is behind the camera: the pre-check,
\* the earlier gate, decides.
C4_Witness ==
    /\ outcome = "AllocFail"
    /\ mem.draw = DrawBehind
    /\ s_alloc.used_slots = BILLBOARD_POOL_SLOTS

\* C5: a call with a non-positive half-width, half-height or scale, or at a
\* dual-scale site a non-positive second scale, returns InvalidArgs without
\* reading the screen size or the display-list-state pointer, and leaves the
\* allocator, the frame counter, the identity cache and the sequence counter
\* unchanged.
C5_InvalidArgsFirst ==
    [][(/\ calls' = calls + 1
        /\ outcome' # "None"
        /\ \/ mem.draw.half_w <= 0
           \/ mem.draw.half_h <= 0
           \/ mem.draw.scale <= 0
           \/ (SiteConfig(obs'.site, mem.draw).dual_scale /\ mem.draw.scale_y <= 0))
        => /\ outcome' = "InvalidArgs"
           /\ obs'.reads \cap {"screen", "dl_state"} = {}
           /\ UNCHANGED <<s_alloc, g_billboard_frame_count, g_prev_quads,
                          g_quad_stamp>>]_vars

\* A dual-scale site is called with a zero second scale while the frame
\* token has changed: the frame is not restarted.
C5_Witness ==
    /\ outcome = "InvalidArgs"
    /\ obs.site = "740094"
    /\ mem.draw = DrawNoScaleY
    /\ mem.dl_state # 0
    /\ mem.dl_state # s_alloc.dl_state

(***************************************************************************)
(* SpecCache: the identity cache.  The initial states are a fresh program, *)
(* a program whose cursor is null, and frames in which DrawA was drawn     *)
(* with another field of view and then DrawB 299, 300 or 301 times less    *)
(* one, so that the entry of DrawA is just inside, at the edge of, and     *)
(* just outside the recency window when DrawA is drawn again.              *)
(***************************************************************************)
MaxCacheCalls == 2

\* The entry of first_draw carries stamp 1; after n further calls the next
\* call finds it n + 1 calls old.
StaleRun == RecencyWindow - 1

OldMem == [BaseMem EXCEPT !.level = Level(F(30))]

DCache ==
    [builds |-> {FALSE, TRUE},
     sites |-> {"73f17c"},
     draws |-> {DrawA, DrawC, DrawBehind},
     screens |-> {Screen320}, dl_states |-> {TokenA},
     vps |-> {VpIdentity},
     levels |-> {Level(F(60)), Level(F(30))},
     states |-> {FreshState(GdlMid), FreshState(GdlNull)}
                \cup {MidFrameState("73f17c", OldMem, DrawA, DrawB, n, GdlMid) :
                         n \in {StaleRun - 1, StaleRun, StaleRun + 1}}]

InitCache == InitP(DCache)

NextCache ==
    \/ \E site \in DCache.sites : sssv_hook_billboard(site, MaxCacheCalls)
    \/ GameSetDraw(DCache)
    \/ GameSetLevelConfig(DCache)

SpecCache == InitCache /\ [][NextCache]_vars

\* C10: in a call that reaches the cache stage the sequence number advances
\* by one, and the previous corners written into the vertices are the stored
\* corners exactly when an entry exists for the group id, its signature
\* equals the quantized position of the call, and the sequence number after
\* the increment minus the stored stamp is at most 300; otherwise they are
\* the current corners.  A call that does not reach the cache stage leaves
\* the sequence number alone.
C10_PreviousCorners ==
    [][(calls' = calls + 1 /\ outcome' # "None") =>
          IF obs'.reached_cache
          THEN LET gid == trace'.group_id
                   hit == /\ gid \in DOMAIN g_prev_quads
                          /\ <<g_prev_quads[gid].sig_x, g_prev_quads[gid].sig_y,
                                g_prev_quads[gid].sig_z>> = obs'.q
                          /\ g_quad_stamp' - g_prev_quads[gid].stamp <= 300
                   verts == pool_mem'[obs'.verts_addr].v
               IN /\ g_quad_stamp' = g_quad_stamp + 1
                  /\ \A i \in 1..4 :
                        /\ verts[i].xp = IF hit THEN g_prev_quads[gid].x[i]
                                         ELSE verts[i].x
                        /\ verts[i].yp = IF hit THEN g_prev_quads[gid].y[i]
                                         ELSE verts[i].y
          ELSE g_quad_stamp' = g_quad_stamp]_vars

\* The first call finds an entry exactly 300 calls old and takes its
\* corners, which differ from the current ones.
C10_Witness ==
    /\ calls = 1
    /\ obs.reached_cache
    /\ g_quad_stamp = StaleRun + 2
    /\ obs.prev # obs.cur

\* C11: a call that reaches the cache stage, hit or miss, leaves the entry of
\* its group id holding the four current corners, the current quantized
\* signature and the sequence number just taken, and leaves every other
\* entry as it was; so when the same group id is drawn again with a
\* matching signature and a recent stamp, the corners it receives as
\* previous are those the entry got from the draw before.
C11_CacheOverwritten ==
    [][(calls' = calls + 1 /\ outcome' # "None" /\ obs'.reached_cache) =>
          LET gid == trace'.group_id
              was == gid \in DOMAIN g_prev_quads
          IN /\ DOMAIN g_prev_quads' = DOMAIN g_prev_quads \cup {gid}
             /\ g_prev_quads'[gid] =
                   [x |-> obs'.cur.x, y |-> obs'.cur.y,
                    sig_x |-> obs'.q[1], sig_y |-> obs'.q[2], sig_z |-> obs'.q[3],
                    stamp |-> g_quad_stamp']
             /\ \A k \in DOMAIN g_prev_quads :
                   k # gid => g_prev_quads'[k] = g_prev_quads[k]
             /\ (/\ was
                 /\ <<g_prev_quads[gid].sig_x, g_prev_quads[gid].sig_y,
                      g_prev_quads[gid].sig_z>> = obs'.q
                 /\ g_quad_stamp' - g_prev_quads[gid].stamp <= RecencyWindow)
                => obs'.prev = [x |-> g_prev_quads[gid].x, y |-> g_prev_quads[gid].y]]_vars

\* The second of two draws of one group in this run: it received the first
\* draw's corners, which differ from its own (the field of view changed in
\* between), and the entry now holds its own.
C11_Witness ==
    /\ calls = 2
    /\ obs.reached_cache
    /\ g_quad_stamp = 2
    /\ obs.prev # obs.cur
    /\ g_prev_quads[trace.group_id].x = obs.cur.x

(***************************************************************************)
(* SpecIdentity: billboard_group_id on its own.  The positions lie on both *)
(* sides of cell borders of the shifts 4 and 18, on both sides of zero;    *)
(* the salts are those of the five sites and the one that cancels the mix  *)
(* of the fields.                                                          *)
(***************************************************************************)
MaxIdCalls == 1

IdShifts == {0, 4, 18}

IdPositions ==
    { <<0, 0, 0>>, <<15, 0, 0>>, <<16, 0, 0>>, <<-1, 0, -16>>, <<-16, 0, -1>>,
      <<262143, 5, -655360>>, <<262144, 5, -655357>>, <<1, 2, -655359>> }

IdSizes == { <<32, 32, 8>>, <<-1, 16, 0>> }

IdSalts == {SiteConfig(site, DrawA).hash_salt : site \in HookSites}

\* The salt equal to the mix of the six fields.
CancellingSalt(a, w, h, sc, shift) ==
    billboard_group_id(ShiftRight(a[1], shift), ShiftRight(a[2], shift),
                       ShiftRight(a[3], shift), w, h, sc, <<0, 0>>)

DIdentity ==
    [builds |-> {FALSE, TRUE}, sites |-> {"73f17c"}, draws |-> {DrawA},
     screens |-> {Screen320}, dl_states |-> {TokenA}, vps |-> {VpIdentity},
     levels |-> {Level(F(60))}, states |-> {FreshState(GdlMid)}]

InitIdentity == InitP(DIdentity)

NextIdentity ==
    \E a \in IdPositions, b \in IdPositions, sz \in IdSizes, shift \in IdShifts :
       \E salt \in IdSalts \cup {CancellingSalt(a, sz[1], sz[2], sz[3], shift)} :
          IdentityCall(a, b, sz[1], sz[2], sz[3], shift, salt, MaxIdCalls)

SpecIdentity == InitIdentity /\ [][NextIdentity]_vars

\* Two positions lie in one cell of the grid of a shift.
SameCell(a, b, shift) ==
    \A i \in 1..3 : (a[i] \div (2 ^ shift)) = (b[i] \div (2 ^ shift))

\* C12, as stated: two positions whose x, y and z each differ by less than
\* 2^shift get the same group id, the other fields and the salt being equal.
C12_CloseSameId ==
    id_call.made =>
       ((\A i \in 1..3 : Abs(id_call.a[i] - id_call.b[i]) < 2 ^ id_call.shift)
           => id_call.ha = id_call.hb)

\* C12, amended: two positions whose x, y and z each lie in the same cell of
\* the grid (equal after the right shift by shift) get the same group id,
\* the other fields and the salt being equal.
C12_SameCellSameId ==
    id_call.made =>
       (SameCell(id_call.a, id_call.b, id_call.shift) => id_call.ha = id_call.hb)

\* Two different positions in one cell of the 2^18 grid, one group id.
C12_Witness ==
    /\ id_call.made
    /\ id_call.shift = 18
    /\ id_call.a # id_call.b
    /\ SameCell(id_call.a, id_call.b, 18)
    /\ id_call.ha = id_call.hb

\* C13: the group id is never 0, and is a 32-bit value; when the salt equals
\* the mix of the six fields, so that the mixed value is 0, the group id
\* is 1.
C13_GroupIdNonZero ==
    id_call.made =>
       /\ id_call.ha # <<0, 0>> /\ id_call.hb # <<0, 0>>
       /\ \A v \in {id_call.ha, id_call.hb} : v[1] \in 0..65535 /\ v[2] \in 0..65535
       /\ (id_call.salt = CancellingSalt(id_call.a, id_call.w, id_call.h, id_call.s,
                                          id_call.shift))
             => id_call.ha = <<0, 1>>

\* The salt cancels the mix and the group id is 1.
C13_Witness ==
    /\ id_call.made
    /\ id_call.salt = CancellingSalt(id_call.a, id_call.w, id_call.h, id_call.s,
                                     id_call.shift)
    /\ id_call.salt \notin {<<0, 0>>, <<0, 1>>}
    /\ id_call.ha = <<0, 1>>

(***************************************************************************)
(* SpecToggles: the five rewrite hooks under every setting of a site's     *)
(* three toggles, in both builds, with draws that emit and draws that do   *)
(* not, a null cursor, and a program that has run for 150 frames so that   *)
(* the statistics of a site are due for a flush.                           *)
(***************************************************************************)
MaxToggleCalls == 2

FlushFrames == STATS_LOG_INTERVAL

DToggles ==
    [builds |-> {FALSE, TRUE},
     toggles |-> {ConfiguredFlags([disable |-> d, rewrite |-> r, suppress |-> su], FALSE) :
                     d \in BOOLEAN, r \in BOOLEAN, su \in BOOLEAN},
     sites |-> HookSites,
     draws |-> {DrawA, DrawBehind},
     screens |-> {Screen320},
     dl_states |-> {TokenA, TokenB},
     vps |-> {VpIdentity},
     levels |-> {Level(F(60))},
     states |-> {FreshState(GdlMid), FreshState(GdlNull),
                 FrameRunState("73f17c", BaseMem, DrawA, FlushFrames, TokenA, GdlMid)}]

InitToggles == InitP(DToggles)

NextToggles ==
    \/ \E site \in DToggles.sites : sssv_hook_billboard(site, MaxToggleCalls)
    \/ GameSetDraw(DToggles)

SpecToggles == InitToggles /\ [][NextToggles]_vars

\* C14: after an engine call of one of the five hooks the stack words of the
\* scale (+0x18, and +0x1C at 740094 and 740820) are zeroed if and only if
\* the outcome is Emitted and the suppress-original toggle of the site is
\* set; otherwise the hook writes nothing to the stack and the memory image
\* is as before.
C14_SuppressOnlyEmitted ==
    [][\A site \in HookSites :
          (calls' = calls + 1 /\ obs'.site = site /\ obs'.engine) =>
             LET supp == outcome' = "Emitted" /\ flags[site].suppress
                 dual == site \in {"740094", "740820"}
             IN /\ obs'.stack_writes =
                      (IF ~supp THEN {}
                       ELSE IF dual THEN {"+0x18", "+0x1C"} ELSE {"+0x18"})
                /\ mem' = (IF ~supp THEN mem
                           ELSE IF dual
                           THEN [mem EXCEPT !.draw.scale = 0, !.draw.scale_y = 0]
                           ELSE [mem EXCEPT !.draw.scale = 0])
                /\ (mem' # mem) <=> supp]_vars

\* A dual-scale site has emitted in a debug build whose suppress toggle was
\* switched on: both scale words are zero.
C14_Witness ==
    /\ ~NDEBUG
    /\ outcome = "Emitted"
    /\ obs.site = "740820"
    /\ obs.stack_writes = {"+0x18", "+0x1C"}
    /\ mem.draw.scale = 0 /\ mem.draw.scale_y = 0

\* C15: with the render-disable toggle of a rewrite site set, whatever its
\* rewrite toggle, the hook zeroes the scale word(s) on the stack and
\* returns: the engine is not called, nothing is counted or printed, and
\* the allocator, the frame counter, the cache, the sequence number, the
\* cursor, the display list and the scratch pool are unchanged.
C15_DisableReturnsEarly ==
    [][\A site \in HookSites :
          (calls' = calls + 1 /\ obs'.site = site /\ flags[site].disable) =>
             /\ ~obs'.engine
             /\ outcome' = "None"
             /\ mem' = (IF site \in {"740094", "740820"}
                        THEN [mem EXCEPT !.draw.scale = 0, !.draw.scale_y = 0]
                        ELSE [mem EXCEPT !.draw.scale = 0])
             /\ stats' = stats
             /\ obs'.printed = <<>>
             /\ UNCHANGED <<s_alloc, g_billboard_frame_count, g_prev_quads,
                            g_quad_stamp, gdl, gfx_mem, pool_mem, handed_out,
                            s_call_count>>]_vars

\* A disabled site whose rewrite toggle is set has been called with a draw
\* that would have emitted: its scale is zeroed and nothing was counted.
C15_Witness ==
    /\ calls = 1
    /\ obs.site = "740094"
    /\ flags["740094"].disable /\ flags["740094"].rewrite
    /\ mem.draw.scale = 0 /\ mem.draw.scale_y = 0 /\ mem.draw.world_z = DrawA.world_z
    /\ stats["740094"].interval_calls = 0
    /\ gfx_mem = <<>>

\* What a skipped call leaves: the engine not called and the memory image,
\* the display list and the program state as before.
SkipWritesNothing ==
    /\ ~obs'.engine
    /\ outcome' = "None"
    /\ obs'.stack_writes = {}
    /\ UNCHANGED <<mem, s_alloc, g_billboard_frame_count, g_prev_quads,
                   g_quad_stamp, gdl, gfx_mem, pool_mem, handed_out, s_call_count>>

\* C16, as stated: with the disable toggle clear and the rewrite toggle
\* clear, the hook adds one to interval_skips of its site and changes no
\* other counter, does not call the engine and writes nothing.
C16_SkipOnlyCounts ==
    [][\A site \in HookSites :
          (calls' = calls + 1 /\ obs'.site = site
             /\ ~flags[site].disable /\ ~flags[site].rewrite) =>
             /\ SkipWritesNothing
             /\ stats' = [stats EXCEPT ![site].interval_skips = @ + 1]]_vars

\* C16, amended: the hook adds one to interval_skips of its site and changes
\* no other counter, unless 150 frames or more have passed since the last
\* flush of the site: then the skip is counted into the report and all
\* interval counters of the site are reset.  The engine is not called and
\* nothing is written either way.
C16_SkipCountsThenFlushes ==
    [][\A site \in HookSites :
          (calls' = calls + 1 /\ obs'.site = site
             /\ ~flags[site].disable /\ ~flags[site].rewrite) =>
             /\ SkipWritesNothing
             /\ \A other \in AllSites \ {site} : stats'[other] = stats[other]
             /\ IF g_billboard_frame_count - stats[site].last_log_frame < 150
                THEN stats'[site] = [stats[site] EXCEPT !.interval_skips = @ + 1]
                ELSE /\ stats'[site].interval_skips = 0
                     /\ stats'[site].interval_calls = 0
                     /\ stats'[site].interval_emits = 0
                     /\ stats'[site].interval_suppresses = 0
                     /\ \A i \in 0..11 : stats'[site].interval_fail_counts[i] = 0
                     /\ stats'[site].last_log_frame = g_billboard_frame_count]_vars

\* Two skipped calls of one site within an interval: two skips counted.
C16_Witness ==
    /\ calls = 2
    /\ obs.site = "73f800"
    /\ ~obs.engine
    /\ stats["73f800"].interval_skips = 2
    /\ stats["73f800"].interval_calls = 0

\* The counters of every rewrite site add up.
StatsBalanced ==
    /\ \A site \in HookSites :
          LET s == stats[site]
          IN /\ s.interval_calls = s.interval_emits + TotalFails(s)
             /\ s.interval_fail_counts[0] = 0
             /\ s.interval_suppresses <= s.interval_emits
             /\ s.has_sample => s.interval_emits >= 1

\* C27: at each of the five rewrite sites, between hook calls, the calls
\* counted are the emits plus the failures 1..11, failure counter 0 is never
\* used, the suppressions do not exceed the emits, and a sample is held only
\* when something was emitted; a call of the engine adds one to the emits or
\* to the failure counter of its outcome and to nothing else, unless the
\* interval ends with it and every counter starts again at zero.
C27_StatsConsistent ==
    /\ []StatsBalanced
    /\ [][(calls' = calls + 1 /\ obs'.engine /\ outcome' \in RewriteOutcomes) =>
            LET before == stats[obs'.site]
                after == stats'[obs'.site]
                flushed == after.last_log_frame # before.last_log_frame
                k == OutcomeIndex(outcome')
            IN IF flushed
               THEN /\ after.interval_calls = 0 /\ after.interval_emits = 0
                    /\ \A i \in 0..11 : after.interval_fail_counts[i] = 0
               ELSE /\ after.interval_calls = before.interval_calls + 1
                    /\ after.interval_emits =
                          before.interval_emits + (IF k = 0 THEN 1 ELSE 0)
                    /\ \A i \in 0..11 :
                          after.interval_fail_counts[i] =
                             before.interval_fail_counts[i]
                                + (IF i = k /\ k # 0 THEN 1 ELSE 0)
                    /\ after.interval_skips = before.interval_skips]_vars

\* One emitted and one failed call have been counted at a site.
C27_Witness ==
    \E site \in HookSites :
       /\ stats[site].interval_calls = 2
       /\ stats[site].interval_emits = 1
       /\ stats[site].interval_fail_counts[4] = 1
       /\ stats[site].has_sample

(***************************************************************************)
(* SpecStats: the statistics and the log.  All six hooks are called, the   *)
(* log toggle is switched, and the game changes the frame token; the       *)
(* program starts fresh, or after 149 frames (the next frame is the first  *)
(* flush of the site that drew), or after 299 frames (the next frame is    *)
(* its second flush).                                                      *)
(***************************************************************************)
MaxStatCalls == 1

DStats ==
    [builds |-> {FALSE, TRUE},
     toggles |-> {ConfiguredFlags([disable |-> FALSE, rewrite |-> r, suppress |-> TRUE], md) :
                     r \in BOOLEAN, md \in BOOLEAN},
     sites |-> HookSites,
     draws |-> {DrawA, DrawBehind},
     screens |-> {Screen320},
     dl_states |-> {TokenA, TokenB},
     vps |-> {VpIdentity},
     levels |-> {Level(F(60))},
     states |-> {FreshState(GdlMid),
                 FrameRunState("73f17c", BaseMem, DrawA, FlushFrames - 1, TokenA, GdlMid),
                 FrameRunState("73f17c", BaseMem, DrawA, (2 * FlushFrames) - 1, TokenA,
                               GdlMid)}]

InitStats == InitP(DStats)

NextStats ==
    \/ \E site \in DStats.sites : sssv_hook_billboard(site, MaxStatCalls)
    \/ sssv_log_billboard_draw_6fa3a4(MaxStatCalls)
    \/ \E v \in BOOLEAN : set_log_73f17c_ortho(v)
    \/ GameSetDraw(DStats)
    \/ GameSetDlState(DStats)

SpecStats == InitStats /\ [][NextStats]_vars

\* Other contents of a statistics record: fresh, full of counts and due for
\* a flush, and holding a sample.
OtherStats ==
    { BillboardStats,
      [BillboardStats EXCEPT !.interval_calls = 7, !.interval_emits = 5,
                             !.interval_suppresses = 5, !.interval_skips = 3,
                             !.interval_fail_counts[4] = 2],
      [BillboardStats EXCEPT !.interval_calls = 1, !.interval_emits = 1,
                             !.has_sample = TRUE, !.last_log_frame = FlushFrames] }

\* What a call did, without what it printed and counted.
Undiagnosed(o) == [o EXCEPT !.printed = <<>>, !.stats_after_log = BillboardStats]

\* C17: what a hook call leaves in the program state, the memory image, the
\* display list, the scratch pool and on the stack, and its outcome and
\* trace, are the same for every other content of the statistics record,
\* either value of the debug-log toggle and any value of the log call
\* counter: the call made equals the call computed with those replaced.
C17_DiagnosticsDoNotInterfere ==
    [][\A site \in HookSites :
          (calls' = calls + 1 /\ obs'.site = site) =>
             \A s2 \in OtherStats, log2 \in BOOLEAN, count2 \in {0, 63} :
                LET h2 == HookCall(site, ProgState, mem, flags[site], s2, log2,
                                   ~NDEBUG, count2)
                IN /\ h2.st = ProgState'
                   /\ h2.mem = mem'
                   /\ h2.outcome = outcome'
                   /\ h2.trace = trace'
                   /\ Undiagnosed(h2.obs) = Undiagnosed(obs')]_vars

\* An emitting, suppressing call was made with the log toggle off that
\* would print with other statistics and the toggle on.
C17_Witness ==
    /\ calls = 1
    /\ obs.site = "740094"
    /\ outcome = "Emitted"
    /\ ~g_log_73f17c_ortho
    /\ g_billboard_frame_count = FlushFrames
    /\ obs.printed = <<>>
    /\ obs.stack_writes = {"+0x18", "+0x1C"}

\* C18: a hook call flushes the statistics of its site only when the frame
\* counter is at least 150 past the frame of the site's last flush (0 at the
\* start); it prints a report only in a flush and only with the log toggle
\* set at that time; and a flush leaves interval_calls, interval_emits,
\* interval_suppresses, interval_skips, the 12 failure counts zero and
\* has_sample false, printed or not.
C18_FlushInterval ==
    [][\A site \in AllSites :
          (calls' = calls + 1 /\ obs'.site = site) =>
             LET before == stats[site]
                 after == obs'.stats_after_log
                 flushed == after.last_log_frame # before.last_log_frame
                 reports == {i \in DOMAIN obs'.printed :
                                obs'.printed[i].tag = "BILLBOARD"}
             IN /\ flushed =>
                     /\ g_billboard_frame_count' - before.last_log_frame >= 150
                     /\ after.last_log_frame = g_billboard_frame_count'
                     /\ after.interval_calls = 0
                     /\ after.interval_emits = 0
                     /\ after.interval_suppresses = 0
                     /\ after.interval_skips = 0
                     /\ \A i \in 0..11 : after.interval_fail_counts[i] = 0
                     /\ ~after.has_sample
                /\ reports # {} => (flushed /\ g_log_73f17c_ortho)
                /\ after.last_log_frame <= g_billboard_frame_count']_vars

\* The second flush of a site, 150 frames after its first, with a report.
C18_Witness ==
    /\ obs.site = "73f17c"
    /\ g_billboard_frame_count = 2 * FlushFrames
    /\ stats["73f17c"].last_log_frame = 2 * FlushFrames
    /\ stats["73f17c"].interval_calls = 0
    /\ Len(obs.printed) > 0
    /\ obs.printed[1].tag = "BILLBOARD"
    /\ obs.printed[1].calls = FlushFrames

(***************************************************************************)
(* SpecDepth: one call with sprites around the near bound of the camera.   *)
(* The depths are -10, -3.5, -3, -3 + 2^-16 and +5; the                    *)
(* view-projection matrix is the identity, one that halves depth, or one   *)
(* that makes the depth NaN.                                               *)
(***************************************************************************)
MaxDepthCalls == 1

\* m(2,2) = 1/2: cam_z is half the world depth.
VpHalfDepth == [write_identity EXCEPT ![11] = Frac(1, 2)]

DDepth ==
    [builds |-> {FALSE, TRUE},
     sites |-> {"73f17c", "740820"},
     draws |-> {DrawA, DrawNoScaleY, DrawBeyondNear, DrawAtNear, DrawInsideNear,
               DrawBehind},
     screens |-> {Screen320, ScreenNone},
     dl_states |-> {0, TokenA},
     vps |-> {VpIdentity, VpHalfDepth, VpNaN},
     levels |-> {Level(F(60))},
     states |-> {FreshState(GdlMid), FreshState(GdlNull),
                 MidFrameState("73f17c", BaseMem, DrawA, DrawA, FullPoolRun, GdlMid)}]

InitDepth == InitP(DDepth)

NextDepth == \E site \in DDepth.sites : sssv_hook_billboard(site, MaxDepthCalls)

SpecDepth == InitDepth /\ [][NextDepth]_vars

\* C20: when the first four gates pass, the outcome is BehindCamera exactly
\* when the camera-space depth is not <= -3.0; in particular it is
\* BehindCamera whenever the depth is greater than -3.0, and a sprite goes on
\* to the later gates only with a depth <= -3.0.
C20_BehindCameraGate ==
    [][(calls' = calls + 1 /\ obs'.engine) =>
          LET m == CallInput(mem)
              cfg == SiteConfig(obs'.site, mem.draw)
              new_frame == m.dl_state # s_alloc.dl_state
              used == IF new_frame THEN 0 ELSE s_alloc.used_slots
              warm == /\ ~new_frame
                      /\ s_alloc.matrices_cached
                      /\ s_alloc.screen_w = m.screen_w
                      /\ s_alloc.screen_h = m.screen_h
              gates_pass == /\ m.half_w > 0 /\ m.half_h > 0 /\ m.scale > 0
                            /\ (cfg.dual_scale => m.scale_y > 0)
                            /\ m.screen_w > 0 /\ m.screen_h > 0
                            /\ m.dl_state # 0
                            /\ used + (IF warm THEN 6 ELSE 14) <= BILLBOARD_POOL_SLOTS
              vp == IF ~new_frame /\ s_alloc.vp_cached THEN s_alloc.vp_mtx ELSE m.vp
              cam_z == FAdd(FAdd(FAdd(vp[12], FMul(vp[11], WorldF(m.world_z))),
                                 FMul(vp[10], WorldF(m.world_y))),
                            FMul(vp[9], WorldF(m.world_x)))
          IN gates_pass =>
                /\ FGt(cam_z, F(-3)) => outcome' = "BehindCamera"
                /\ outcome' # "BehindCamera" => FLe(cam_z, F(-3))
                /\ outcome' = "BehindCamera" => ~FLe(cam_z, F(-3))]_vars

\* A sprite at depth +5.0 has been turned away as behind the camera.
C20_Witness ==
    /\ calls = 1
    /\ outcome = "BehindCamera"
    /\ trace.cam_z = F(5)

\* A sprite exactly at depth -3.0 has gone past the gate.
C20_WitnessAtNear ==
    /\ calls = 1
    /\ trace.cam_z = F(-3)
    /\ outcome = "Emitted"

(***************************************************************************)
(* SpecRace: the setters run on another thread while the hooks run.  A     *)
(* setter may store between the entry of a hook and its return; the game   *)
(* itself changes the memory image only between hook calls.                *)
(***************************************************************************)
MaxRaceCalls == 1

DRace ==
    [builds |-> {FALSE, TRUE},
     sites |-> {"73f17c"},
     draws |-> {DrawA, DrawBehind},
     screens |-> {Screen320},
     dl_states |-> {TokenA},
     vps |-> {VpIdentity},
     levels |-> {Level(F(60))},
     states |-> {FreshState(GdlMid),
                 FrameRunState("73f17c", BaseMem, DrawA, FlushFrames - 1, TokenA, GdlMid)}]

InitRace == InitP(DRace)

NextRace ==
    \/ \E site \in DRace.sites : sssv_hook_billboard_enter(site, MaxRaceCalls)
    \/ \E site \in DRace.sites : sssv_hook_billboard_rest(site)
    \/ \E site \in DRace.sites, field \in {"disable", "rewrite", "suppress"}, v \in BOOLEAN :
          set_toggle(site, field, v)
    \/ \E v \in BOOLEAN : set_log_73f17c_ortho(v)
    \/ GameSetDraw(DRace)

SpecRace == InitRace /\ [][NextRace]_vars

\* What the hook that is running would leave with every toggle taken as it
\* was at entry.
AsAtEntry ==
    HookCall(hook_pc.site, ProgState, mem, hook_pc.flags, stats[hook_pc.site],
             hook_pc.log, ~NDEBUG, s_call_count)

\* C21: every toggle is read at the start of the hook call: a call leaves
\* what it would leave with the toggles as they were at entry, whatever the
\* setters store while it runs.
C21_TogglesReadAtEntry ==
    [][(hook_pc.at = "entered" /\ calls' = calls + 1) =>
          /\ mem' = AsAtEntry.mem
          /\ stats'[hook_pc.site] = AsAtEntry.stats
          /\ obs' = AsAtEntry.obs
          /\ outcome' = AsAtEntry.outcome]_vars

\* The disable and rewrite toggles are read at entry: the path of the call
\* and the outcome of the engine are those of the toggles at entry.
C21_PathFixedAtEntry ==
    [][(hook_pc.at = "entered" /\ calls' = calls + 1) =>
          /\ obs'.engine = (HookPath(hook_pc.flags) = "rewrite")
          /\ outcome' = AsAtEntry.outcome
          /\ gdl' = AsAtEntry.st.gdl
          /\ s_alloc' = AsAtEntry.st.s_alloc]_vars

\* A call has returned Emitted with the scale on the stack zeroed, although
\* suppress_original was clear when the call was entered.
C21_Witness ==
    /\ hook_pc = HookIdle
    /\ calls = 1
    /\ outcome = "Emitted"
    /\ obs.stack_writes # {}
    /\ NDEBUG = FALSE
    /\ flags = [InitFlags(FALSE) EXCEPT ![obs.site].suppress = TRUE]

(***************************************************************************)
(* SpecWrap: calls from first instruction to return, with the screen wrap  *)
(* of 740820 switched on or off by the ninth argument and horizontal       *)
(* centres on the screen, several screen widths to either side, infinite,  *)
(* and NaN.  The hook is entered in one step and runs in the next; a call  *)
(* that never returns leaves the hook inside the loop for good.            *)
(***************************************************************************)
MaxWrapCalls == 2

DWrap ==
    [builds |-> {FALSE, TRUE},
     sites |-> {"73f17c", "740820"},
     draws |-> {DrawA, DrawWrap, DrawWrapClamped, DrawBehind},
     screens |-> {Screen320, ScreenNone},
     dl_states |-> {TokenA},
     vps |-> {VpIdentity, VpOffscreen, VpOffscreenRight, VpInfLeft, VpInfRight, VpNaN},
     levels |-> {Level(F(60))},
     states |-> {FreshState(GdlMid), FreshState(GdlNull)}]

InitWrap == InitP(DWrap)

NextWrap ==
    \/ \E site \in DWrap.sites : sssv_hook_billboard_enter(site, MaxWrapCalls)
    \/ \E site \in DWrap.sites : sssv_hook_billboard_rest(site)
    \/ GameSetDraw(DWrap)

SpecWrap == InitWrap /\ [][NextWrap]_vars

\* C22: every call of the engine terminates and returns one of the twelve
\* outcomes: the run of a hook that has been entered leaves the hook idle,
\* with an outcome of the enumeration.
C22_EveryCallReturns ==
    [][(hook_pc.at = "entered" /\ calls' = calls + 1) =>
          (hook_pc' = HookIdle /\ outcome' \in RewriteOutcomes)]_vars

\* With a horizontal centre that is finite or NaN the call does return, and
\* with one of the twelve outcomes.
C22_FiniteCentreReturns ==
    [][(hook_pc.at = "entered" /\ calls' = calls + 1) =>
          LET m == CallInput(mem)
              centre == CenterX(m.vp, WorldF(m.world_x), WorldF(m.world_y),
                                WorldF(m.world_z),
                                CamZ(m.vp, WorldF(m.world_x), WorldF(m.world_y),
                                     WorldF(m.world_z)),
                                m.screen_w)
          IN /\ ~IsInf(centre) => (hook_pc' = HookIdle /\ outcome' \in RewriteOutcomes)
             /\ hook_pc' # HookIdle =>
                   /\ hook_pc.site = "740820"
                   /\ m.arg20 # 0
                   /\ IsInf(centre)]_vars

\* The hook at 740820 is inside a wrap loop that makes no progress.
C22_Witness ==
    /\ hook_pc = [at |-> "wrap_loop", site |-> "740820"]
    /\ mem.vp = VpInfLeft
    /\ mem.draw = DrawWrap

\* A centre nine screen widths to the left has been wrapped onto the screen
\* and the sprite emitted.
C22_WitnessWrapped ==
    /\ hook_pc = HookIdle
    /\ obs.site = "740820"
    /\ mem.vp = VpOffscreen
    /\ mem.draw = DrawWrap
    /\ outcome = "Emitted"
    /\ FGe(trace.xl, F(0))
    /\ FLe(trace.xh, F(4 * 320))

(***************************************************************************)
(* SpecScenario: the sprite of the worked example, world (0, 0, -10.0),    *)
(* half sizes 32, scale 8, screen 320x240, field of view 60, identity      *)
(* view-projection, drawn from each of the five sites, next to variations  *)
(* of each input, with the pool empty, part used and full and the cursor   *)
(* valid and too close to the end of RDRAM.                                *)
(***************************************************************************)
MaxScenarioCalls == 2

DScenario ==
    [builds |-> {FALSE, TRUE},
     sites |-> HookSites,
     draws |-> {DrawA, DrawB, DrawBehind},
     screens |-> {Screen320, Screen640},
     dl_states |-> {TokenA},
     vps |-> {VpIdentity, VpOffscreen},
     levels |-> {Level(F(60))},
     states |-> {FreshState(GdlMid), FreshState(GdlShort),
                 MidFrameState("73f17c", BaseMem, DrawA, DrawA, FullPoolRun, GdlMid)}]

InitScenario == InitP(DScenario)

NextScenario == \E site \in DScenario.sites : sssv_hook_billboard(site, MaxScenarioCalls)

SpecScenario == InitScenario /\ [][NextScenario]_vars

\* The inputs of the worked example, with room in the pool and behind the
\* cursor.
ScenarioInputs ==
    /\ mem = BaseMem
    /\ mem.draw.world_x = 0 /\ mem.draw.world_y = 0 /\ mem.draw.world_z = -655360
    /\ mem.draw.half_w = 32 /\ mem.draw.half_h = 32 /\ mem.draw.scale = 8
    /\ mem.screen = <<320, 240>>
    /\ mem.level.fov = F(60)
    /\ mem.vp = write_identity
    /\ (IF mem.dl_state # s_alloc.dl_state THEN 0 ELSE s_alloc.used_slots) + 14
          <= BILLBOARD_POOL_SLOTS
    /\ gdl # 0
    /\ vram_to_phys_u32(gdl) + kEmittedBytes <= RDRAM_SIZE_BYTES

\* Emitted, the horizontal extent centred on 640, and the four vertices with
\* the texture coordinates (0,0), (1984,0), (0,1984), (1984,1984).
ScenarioEmitted ==
    /\ outcome' = "Emitted"
    /\ FLt(trace'.xl, F(640)) /\ FLt(F(640), trace'.xh)
    /\ FSub(F(640), trace'.xl) = FSub(trace'.xh, F(640))
    /\ FLt(trace'.yl, F(480)) /\ FLt(F(480), trace'.yh)
    /\ LET v == pool_mem'[obs'.verts_addr].v
       IN /\ pool_mem'[obs'.verts_addr].kind = "vtx"
          /\ <<v[1].s, v[1].t>> = <<0, 0>>
          /\ <<v[2].s, v[2].t>> = <<1984, 0>>
          /\ <<v[3].s, v[3].t>> = <<0, 1984>>
          /\ <<v[4].s, v[4].t>> = <<1984, 1984>>
          /\ 1984 = (32 - 1) * 64

\* C23 as stated: in the worked example the outcome is Emitted, the
\* rectangle is centred on (640, 480) with equal half-extents on both sides,
\* horizontally and vertically, and the vertices carry the texture
\* coordinates (0,0), (1984,0), (0,1984), (1984,1984).
C23_ScenarioCentred ==
    [][(calls' = calls + 1 /\ obs'.engine /\ ScenarioInputs) =>
          /\ ScenarioEmitted
          /\ FSub(F(480), trace'.yl) = FSub(trace'.yh, F(480))]_vars

\* C23, amended: as stated at the sites whose configuration has no fixed
\* bottom edge; at 6c5e44 (y_bottom_fixed = 2.0) the bottom edge is 482
\* whatever the half-extent above the centre is.
C23_ScenarioCentredUnlessFixedBottom ==
    [][(calls' = calls + 1 /\ obs'.engine /\ ScenarioInputs) =>
          /\ ScenarioEmitted
          /\ IF obs'.site = "6c5e44"
             THEN trace'.yh = F(482)
             ELSE FSub(F(480), trace'.yl) = FSub(trace'.yh, F(480))]_vars

\* The worked example has been drawn from 73f17c: the rectangle is
\* (636.48, 476.48)-(643.52, 483.52).
C23_Witness ==
    /\ obs.site = "73f17c"
    /\ outcome = "Emitted"
    /\ mem = BaseMem
    /\ trace.xl = Frac(63648, 100) /\ trace.xh = Frac(64352, 100)
    /\ trace.yl = Frac(47648, 100) /\ trace.yh = Frac(48352, 100)

(***************************************************************************)
(* SpecPool: frames with a constant screen size, from an empty pool and    *)
(* from pools one and two vertex blocks short of full; sprites that are    *)
(* emitted and sprites that fail before the allocation; the frame token    *)
(* may change between calls.                                               *)
(***************************************************************************)
MaxPoolCalls == 3

DPool ==
    [builds |-> {FALSE, TRUE},
     sites |-> {"73f17c", "740094"},
     draws |-> {DrawA, DrawBehind},
     screens |-> {Screen320},
     dl_states |-> {TokenA, TokenB},
     vps |-> {VpIdentity},
     levels |-> {Level(F(60))},
     states |-> {FreshState(GdlMid),
                 MidFrameState("73f17c", BaseMem, DrawA, DrawA, NearlyFullRun, GdlMid),
                 MidFrameState("73f17c", BaseMem, DrawA, DrawA, LastBlockRun, GdlMid)}]

InitPool == InitP(DPool)

NextPool ==
    \/ \E site \in DPool.sites : sssv_hook_billboard(site, MaxPoolCalls)
    \/ GameSetDraw(DPool)
    \/ GameSetDlState(DPool)

SpecPool == InitPool /\ [][NextPool]_vars

\* The number of calls that have allocated in the frame, from the slots in
\* use: one cold call and then warm ones.
AllocatingCalls(used_slots) ==
    IF used_slots = 0 THEN 0 ELSE 1 + ((used_slots - 14) \div 6)

\* C25: a call that passes the allocation gate consumes exactly 14 slots
\* when the matrices are not cached for the frame and screen size and
\* exactly 6 when they are; the pre-check fails exactly when that number
\* does not fit; and with a constant screen size at most 1364 calls of a
\* frame allocate, the slots in use being 14 + 6k, 8192 after the last one.
C25_SlotsPerCall ==
    /\ [](s_alloc.used_slots = 0
           \/ (s_alloc.used_slots >= 14 /\ (s_alloc.used_slots - 14) % 6 = 0))
    /\ [](AllocatingCalls(s_alloc.used_slots) <= 1364)
    /\ [][(calls' = calls + 1 /\ obs'.engine) =>
            LET m == CallInput(mem)
                new_frame == m.dl_state # s_alloc.dl_state
                used == IF new_frame THEN 0 ELSE s_alloc.used_slots
                warm == /\ ~new_frame
                        /\ s_alloc.matrices_cached
                        /\ s_alloc.screen_w = m.screen_w
                        /\ s_alloc.screen_h = m.screen_h
                need == IF warm THEN 6 ELSE 14
                allocated == obs'.handed.slots # 0
            IN /\ allocated =>
                    /\ obs'.handed.slots = need
                    /\ obs'.handed.bytes = (IF warm THEN 96 ELSE 224)
                    /\ s_alloc'.used_slots = used + need
                    /\ AllocatingCalls(s_alloc'.used_slots) = AllocatingCalls(used) + 1
                    /\ warm = (used > 0)
               /\ ~allocated =>
                    s_alloc'.used_slots =
                       (IF outcome' \in {"InvalidArgs", "InvalidScreen", "MissingDlState"}
                        THEN s_alloc.used_slots ELSE used)
               /\ (outcome' = "AllocFail") = (/\ m.half_w > 0 /\ m.half_h > 0
                                              /\ m.scale > 0 /\ m.scale_y > 0
                                              /\ m.dl_state # 0
                                              /\ used + need > BILLBOARD_POOL_SLOTS)
               /\ outcome' = "AllocFail" => used = BILLBOARD_POOL_SLOTS]_vars

\* The 1364th allocating call of a frame has left the pool exactly full.
C25_Witness ==
    /\ outcome = "Emitted"
    /\ obs.handed.slots = 6
    /\ s_alloc.used_slots = 8192
    /\ AllocatingCalls(s_alloc.used_slots) = 1364

(***************************************************************************)
(* SpecViewProj: the game rewrites the view-projection block and changes   *)
(* the frame token between calls; the pool is empty or full, so that calls *)
(* pass and fail the capacity pre-check.                                   *)
(***************************************************************************)
MaxViewProjCalls == 3

DViewProj ==
    [builds |-> {FALSE, TRUE},
     sites |-> {"73f17c"},
     draws |-> {DrawA},
     screens |-> {Screen320},
     dl_states |-> {0, TokenA, TokenB},
     vps |-> {VpIdentity, VpHalfDepth, VpNaN},
     levels |-> {Level(F(60))},
     states |-> {FreshState(GdlMid),
                 MidFrameState("73f17c", BaseMem, DrawA, DrawA, FullPoolRun, GdlMid)}]

InitViewProj == InitP(DViewProj)

NextViewProj ==
    \/ \E site \in DViewProj.sites : sssv_hook_billboard(site, MaxViewProjCalls)
    \/ GameSetDraw(DViewProj)
    \/ GameSetViewProj(DViewProj)
    \/ GameSetDlState(DViewProj)

SpecViewProj == InitViewProj /\ [][NextViewProj]_vars

\* C26: a call reads the view-projection block exactly when it passes the
\* capacity pre-check and no call has read it since the stored frame token
\* was set; such a read is the only one under that token.  Every other call
\* works with the copy in s_alloc, whatever the memory holds by then, and a
\* call with a new token that passes the pre-check reads again.
C26_ViewProjOncePerFrame ==
    [][(calls' = calls + 1 /\ obs'.engine) =>
          LET m == CallInput(mem)
              new_frame == m.dl_state # s_alloc.dl_state
              past_precheck == outcome' \notin {"InvalidArgs", "InvalidScreen",
                                                "MissingDlState", "AllocFail"}
              read == "viewproj" \in obs'.reads
              copy == IF read THEN m.vp ELSE s_alloc.vp_mtx
          IN /\ read = (past_precheck /\ (new_frame \/ ~s_alloc.vp_cached))
             /\ past_precheck =>
                   /\ s_alloc'.vp_cached
                   /\ s_alloc'.dl_state = m.dl_state
                   /\ s_alloc'.vp_mtx = copy
                   /\ trace'.cam_z = CamZ(copy, WorldF(m.world_x), WorldF(m.world_y),
                                          WorldF(m.world_z))
             /\ (past_precheck /\ ~new_frame /\ s_alloc.vp_cached) =>
                   s_alloc'.vp_mtx = s_alloc.vp_mtx
             /\ (~past_precheck /\ ~new_frame) =>
                   (s_alloc'.vp_cached = s_alloc.vp_cached
                      /\ s_alloc'.vp_mtx = s_alloc.vp_mtx)
             /\ (new_frame /\ outcome' = "AllocFail") => ~s_alloc'.vp_cached]_vars

\* The second call of a frame has worked with the cached block although the
\* memory holds another one by now.
C26_Witness ==
    /\ calls >= 2
    /\ obs.engine
    /\ outcome = "Emitted"
    /\ "viewproj" \notin obs.reads
    /\ mem.vp = VpNaN
    /\ s_alloc.vp_mtx = VpIdentity

\* After a change of the frame token the block has been read again.
C26_WitnessNewFrame ==
    /\ calls >= 2
    /\ "viewproj" \in obs.reads
    /\ mem.vp = VpHalfDepth
    /\ s_alloc.vp_mtx = VpHalfDepth
    /\ g_billboard_frame_count >= 2

(***************************************************************************)
(* SpecAspect: the aspect-ratio hook.  guPerspective passes an aspect      *)
(* below, at, inside and above the bounds of the sanity check, zero, a     *)
(* negative one, an infinity or NaN; the window is 4:3, wider, narrower,   *)
(* wider than 10:1 or has a dimension that is zero or negative; the user   *)
(* resizes the window and changes the option between calls.                *)
(***************************************************************************)
MaxAspectCalls == 2

Originals ==
    {NaN, <<1, 0>>, <<-1, 0>>, F(-1), F(0), Frac(1, 20), Frac(1, 10), F(1),
     Frac(4, 3), Frac(16, 9), F(2), F(10), F(11)}

DAspect ==
    [builds |-> {FALSE},
     sites |-> {"73f17c"},
     draws |-> {DrawA},
     screens |-> {Screen320},
     dl_states |-> {TokenA},
     vps |-> {VpIdentity},
     levels |-> {Level(F(60))},
     states |-> {FreshState(GdlMid)},
     ar_options |-> AspectRatio,
     windows |-> {<<640, 480>>, <<1920, 1080>>, <<480, 640>>, <<4000, 100>>,
                  <<0, 480>>, <<640, 0>>, <<-1, -1>>}]

InitAspect == InitP(DAspect)

NextAspect ==
    \/ \E original \in Originals : sssv_get_target_aspect_ratio(original, MaxAspectCalls)
    \/ SetWindowSize(DAspect)
    \/ SetArOption(DAspect)

SpecAspect == InitAspect /\ [][NextAspect]_vars

\* The argument is passed through: the option is Original, or the argument
\* is not finite or lies outside [0.1, 10].
PassedThrough(original, option) ==
    \/ option = "Original"
    \/ ~IsFinite(original)
    \/ ~(FLe(kMinOriginal, original) /\ FLe(original, kMaxOriginal))

\* The aspect of the window, 4:3 when a dimension is zero or negative.
WindowAspect(win) ==
    IF win[1] <= 0 \/ win[2] <= 0 THEN Frac(4, 3) ELSE Frac(win[1], win[2])

\* The greater of two finite values.
Greater(a, b) == IF a[1] * b[2] >= b[1] * a[2] THEN a ELSE b

\* C28: sssv_get_target_aspect_ratio returns, for a finite argument, a value
\* that is not below it; it returns the argument itself when the option is
\* Original or the argument is not finite or outside [0.1, 10]; and in every
\* other case the greatest of the argument, the window's width over its
\* height and 4/3, with 4/3 for the window when one of its dimensions is
\* zero or negative.
C28_NeverNarrower ==
    [][aspect_call'.n = aspect_call.n + 1 =>
          LET original == aspect_call'.original
              result == aspect_call'.result
          IN /\ IsFinite(original) =>
                   (IsFinite(result) /\ result[1] * original[2] >= original[1] * result[2])
             /\ PassedThrough(original, config.ar_option) => result = original
             /\ ~PassedThrough(original, config.ar_option) =>
                   result = Greater(original, Greater(WindowAspect(window), Frac(4, 3)))]_vars

\* A call with the option Expand has widened 4:3 to the 16:9 of the window.
C28_Witness ==
    /\ aspect_call.n >= 1
    /\ config.ar_option = "Expand"
    /\ window = <<1920, 1080>>
    /\ aspect_call.original = Frac(4, 3)
    /\ aspect_call.result = Frac(16, 9)

\* A call in a window narrower than 4:3 has returned 4/3 for an aspect of 1.
C28_WitnessNarrowWindow ==
    /\ aspect_call.n >= 1
    /\ config.ar_option # "Original"
    /\ window = <<480, 640>>
    /\ aspect_call.original = F(1)
    /\ aspect_call.result = Frac(4, 3)

\* A call with an argument wider than the window has returned the argument.
C28_WitnessWiderArgument ==
    /\ aspect_call.n >= 1
    /\ config.ar_option = "Expand"
    /\ window = <<640, 480>>
    /\ aspect_call.original = F(2)
    /\ aspect_call.result = F(2)

(***************************************************************************)
(* SpecPatch: the collision-size patch.  The image is loaded with the byte *)
(* holding the wanted value or another one; the patch is called, and the   *)
(* game stores bytes around and at the patched address and changes         *)
(* registers between the calls.                                            *)
(***************************************************************************)
MaxPatchCalls == 2

DPatch ==
    [builds |-> {FALSE},
     sites |-> {"73f17c"},
     draws |-> {DrawA},
     screens |-> {Screen320},
     dl_states |-> {TokenA},
     vps |-> {VpIdentity},
     levels |-> {Level(F(60))},
     states |-> {FreshState(GdlMid)},
     bytes |-> {0, FBM_TROPHY_HITBOX_FIXED_VALUE, 32, 255},
     ctxs |-> {Ctx(0, K0BASE + 4096), Ctx(1, K0BASE + 4096)}]

MaxGameStores == 2

\* The bytes that differ from the image as loaded with a zero at the address.
StoredBytes == Cardinality({a \in PatchWindow : rdram[a] # 0})

InitPatch == InitP(DPatch)

NextPatch ==
    \/ sssv_patch_trophy_collision_guard(MaxPatchCalls)
    \/ StoredBytes < MaxGameStores /\ GameStoresByte(DPatch)
    \/ GameSetsRegister(DPatch)

SpecPatch == InitPatch /\ [][NextPatch]_vars

\* C29: after a call of sssv_patch_trophy_collision_guard the byte at
\* 0x803AD3F3 is 0x15, every other byte of the image and every register is as
\* before the call, and a call that follows changes nothing: neither one run
\* on the image the call has left, nor the call made when the byte already
\* holds 0x15.
C29_PatchIdempotent ==
    [][patch_call'.n = patch_call.n + 1 =>
          /\ rdram'[ADDR_FBM_TROPHY_HITBOX_SIZE] = 21
          /\ \A a \in PatchWindow \ {ADDR_FBM_TROPHY_HITBOX_SIZE} : rdram'[a] = rdram[a]
          /\ ctx' = ctx
          /\ PatchedImage(rdram') = rdram'
          /\ (rdram[ADDR_FBM_TROPHY_HITBOX_SIZE] = 21 => rdram' = rdram)
          /\ UNCHANGED <<billboard_vars, widescreen_vars>>]_vars

\* The second call has found the byte as the first one left it, with another
\* value stored next to it.
C29_Witness ==
    /\ patch_call.n = 2
    /\ patch_call.before = 21
    /\ rdram[ADDR_FBM_TROPHY_HITBOX_SIZE] = 21
    /\ rdram[ADDR_FBM_TROPHY_HITBOX_SIZE - 1] = 255

\* A call has replaced another value of the byte.
C29_WitnessPatched ==
    /\ patch_call.n = 1
    /\ patch_call.before = 32
    /\ rdram[ADDR_FBM_TROPHY_HITBOX_SIZE] = 21

(***************************************************************************)
(* SpecCapacity: the pre-check and the allocation.  The pool is empty or   *)
(* has room for two, one or no further warm call; the game changes the     *)
(* screen size, which makes the next call a cold one in the middle of a    *)
(* frame, and the frame token.                                             *)
(***************************************************************************)
MaxCapacityCalls == 2

DCapacity ==
    [builds |-> {FALSE},
     sites |-> {"73f17c"},
     draws |-> {DrawA, DrawBehind},
     screens |-> {Screen320, Screen640},
     dl_states |-> {TokenA, TokenB},
     vps |-> {VpIdentity},
     levels |-> {Level(F(60))},
     states |-> {FreshState(GdlMid),
                 MidFrameState("73f17c", BaseMem, DrawA, DrawA, NearlyFullRun, GdlMid),
                 MidFrameState("73f17c", BaseMem, DrawA, DrawA, LastBlockRun, GdlMid),
                 MidFrameState("73f17c", BaseMem, DrawA, DrawA, FullPoolRun, GdlMid)}]

InitCapacity == InitP(DCapacity)

NextCapacity ==
    \/ \E site \in DCapacity.sites : sssv_hook_billboard(site, MaxCapacityCalls)
    \/ GameSetDraw(DCapacity)
    \/ GameSetScreen(DCapacity)
    \/ GameSetDlState(DCapacity)

SpecCapacity == InitCapacity /\ [][NextCapacity]_vars

\* C30: a call that passes the capacity pre-check and is not turned away by
\* the gates between it and the allocation is handed its block: it never
\* returns AllocFail.  AllocFail is returned by the pre-check only: the call
\* that returns it has failed the pre-check and has computed nothing of the
\* later stages.
C30_AllocFailOnlyAtPreCheck ==
    [][(calls' = calls + 1 /\ obs'.engine /\ outcome' \in RewriteOutcomes) =>
          LET m == CallInput(mem)
              new_frame == m.dl_state # s_alloc.dl_state
              used == IF new_frame THEN 0 ELSE s_alloc.used_slots
              warm == /\ ~new_frame
                      /\ s_alloc.matrices_cached
                      /\ s_alloc.screen_w = m.screen_w
                      /\ s_alloc.screen_h = m.screen_h
              need == IF warm THEN 6 ELSE 14
              precheck_reached ==
                  outcome' \notin {"InvalidArgs", "InvalidScreen", "MissingDlState"}
              precheck_passed == precheck_reached /\ used + need <= 8192
              turned_away ==
                  outcome' \in {"BehindCamera", "InvalidClipW", "InvalidFov",
                                "InvalidSpriteScale", "Offscreen"}
          IN /\ precheck_passed => outcome' # "AllocFail"
             /\ (precheck_passed /\ ~turned_away) =>
                   /\ outcome' \in {"GfxPtrFail", "GfxCapacityFail", "Emitted"}
                   /\ obs'.handed.slots = need
                   /\ s_alloc'.used_slots = used + need
             /\ outcome' = "AllocFail" =>
                   /\ precheck_reached
                   /\ used + need > 8192
                   /\ obs'.handed = NoAlloc
                   /\ s_alloc'.used_slots = used
                   /\ trace'.cam_z = F(0)
                   /\ trace'.clip_w = F(0)
                   /\ trace'.sprite_scale = F(0)
                   /\ <<trace'.xl, trace'.yl, trace'.xh, trace'.yh>> =
                         <<F(0), F(0), F(0), F(0)>>]_vars

\* A call has passed the pre-check with six slots left and has been handed
\* them.
C30_Witness ==
    /\ calls >= 1
    /\ outcome = "Emitted"
    /\ obs.handed = [addr |-> BILLBOARD_POOL_VRAM + (8186 * 16), bytes |-> 96,
                     slots |-> 6]
    /\ s_alloc.used_slots = 8192

\* A cold call in the middle of a frame, after a change of the screen size,
\* has been handed 14 slots.
C30_WitnessColdMidFrame ==
    /\ calls = 2
    /\ outcome = "Emitted"
    /\ obs.handed.slots = 14
    /\ s_alloc.used_slots = 28
    /\ mem.screen = Screen640

\* A cold call has failed the pre-check where a warm one would have passed.
C30_WitnessColdFails ==
    /\ calls >= 1
    /\ outcome = "AllocFail"
    /\ s_alloc.used_slots = 8186
    /\ mem.screen = Screen640
    /\ obs.handed = NoAlloc

(***************************************************************************)
(* What a call that does not emit leaves behind.                           *)
(***************************************************************************)
\* The allocator and the identity cache after the call are as the frame
\* reset of the call left them.
LeavesStateAsReset ==
    LET new_frame == mem.dl_state # s_alloc.dl_state
        reset_done == outcome' \notin {"InvalidArgs", "InvalidScreen", "MissingDlState"}
    IN /\ s_alloc'.used_slots =
             (IF reset_done /\ new_frame THEN 0 ELSE s_alloc.used_slots)
       /\ s_alloc'.matrices_cached =
             (IF reset_done /\ new_frame THEN FALSE ELSE s_alloc.matrices_cached)
       /\ g_prev_quads' = g_prev_quads
       /\ g_quad_stamp' = g_quad_stamp

\* C31, as stated: every call that does not return Emitted, GfxPtrFail and
\* GfxCapacityFail included, leaves used_slots (apart from the frame reset),
\* matrices_cached, the identity cache and g_quad_stamp unchanged.
C31_FailedCallLeavesState ==
    [][(calls' = calls + 1 /\ obs'.engine /\ outcome' \in RewriteOutcomes
          /\ outcome' # "Emitted") => LeavesStateAsReset]_vars

\* The calls returned by the gates before the cache update do leave them
\* unchanged.
C31_EarlyReturnLeavesState ==
    [][(calls' = calls + 1 /\ obs'.engine /\ outcome' \in RewriteOutcomes
          /\ outcome' \notin {"Emitted", "GfxPtrFail", "GfxCapacityFail"})
          => LeavesStateAsReset]_vars

\* A call has returned GfxPtrFail with its block taken from the pool, the
\* matrices cached, its cache entry written and the sequence number advanced.
C31_Witness ==
    /\ calls = 1
    /\ outcome = "GfxPtrFail"
    /\ obs.handed.slots = 14
    /\ s_alloc.used_slots >= 14
    /\ s_alloc.matrices_cached
    /\ trace.group_id \in DOMAIN g_prev_quads
    /\ g_prev_quads[trace.group_id].stamp = g_quad_stamp
    /\ g_quad_stamp >= 1

\* The same for a call returned by the capacity gate of the display list.
C31_WitnessCapacity ==
    /\ calls = 1
    /\ outcome = "GfxCapacityFail"
    /\ obs.handed.slots # 0
    /\ trace.group_id \in DOMAIN g_prev_quads
    /\ g_prev_quads[trace.group_id].stamp = g_quad_stamp

(***************************************************************************)
(* SpecMatrices: the cached pair of matrices.  The program starts fresh,   *)
(* with a display-list cursor that works or a null one; the game changes   *)
(* the screen size in the middle of a frame, the frame token and the draw. *)
(***************************************************************************)
MaxMatrixCalls == 3

DMatrices ==
    [builds |-> {FALSE},
     sites |-> {"73f17c"},
     draws |-> {DrawA, DrawBehind},
     screens |-> {Screen320, Screen640},
     dl_states |-> {TokenA, TokenB},
     vps |-> {VpIdentity},
     levels |-> {Level(F(60))},
     states |-> {FreshState(GdlMid), FreshState(GdlNull)}]

InitMatrices == InitP(DMatrices)

NextMatrices ==
    \/ \E site \in DMatrices.sites : sssv_hook_billboard(site, MaxMatrixCalls)
    \/ GameSetDraw(DMatrices)
    \/ GameSetScreen(DMatrices)
    \/ GameSetDlState(DMatrices)

SpecMatrices == InitMatrices /\ [][NextMatrices]_vars

\* The bytes of a handed-out block that hold vertices: all 96 of a block of
\* vertices only, the 96 behind the two matrices otherwise.
VertexRange(block) ==
    IF block.bytes = 96 THEN [lo |-> block.addr, hi |-> block.addr + 96]
    ELSE [lo |-> block.addr + 128, hi |-> block.addr + 224]

\* The projection a pair is built with for a screen size.
OrthoFor(screen_w, screen_h) ==
    write_ortho(<<-2 * screen_w, 1>>, <<2 * screen_w, 1>>, <<2 * screen_h, 1>>,
                <<-2 * screen_h, 1>>, F(-1), F(1))

\* The cached pair lies in the part of the pool in use, holds the matrices of
\* the cached screen size, and no vertex block of the frame overlaps it.
CachedMatricesPlaced ==
    /\ s_alloc.matrices_cached =>
          /\ s_alloc.view_mtx_addr = s_alloc.proj_mtx_addr + 64
          /\ s_alloc.proj_mtx_addr >= BILLBOARD_POOL_VRAM
          /\ s_alloc.view_mtx_addr + 64 <= BILLBOARD_POOL_VRAM + 16 * s_alloc.used_slots
          /\ s_alloc.proj_mtx_addr \in DOMAIN pool_mem
          /\ s_alloc.view_mtx_addr \in DOMAIN pool_mem
          /\ pool_mem[s_alloc.proj_mtx_addr] =
                [kind |-> "mtx", v |-> OrthoFor(s_alloc.screen_w, s_alloc.screen_h)]
          /\ pool_mem[s_alloc.view_mtx_addr] = [kind |-> "mtx", v |-> write_identity]
          /\ \A i \in 1..Len(handed_out) :
                handed_out[i].frame = g_billboard_frame_count =>
                   LET v == VertexRange(handed_out[i])
                   IN \/ v.hi <= s_alloc.proj_mtx_addr
                      \/ s_alloc.proj_mtx_addr + 128 <= v.lo

\* C32: whenever matrices_cached is set, the view matrix lies 64 bytes behind
\* the projection matrix, both lie in the part of the pool allocated in the
\* current frame, the projection matrix in the pool is the one of the cached
\* screen size and the view matrix the identity, and no vertex block of the
\* frame overlaps the pair; and a call that reaches the allocation with
\* another screen size than the cached one, in the same frame, allocates and
\* caches a new pair.
C32_CachedMatrices ==
    /\ []CachedMatricesPlaced
    /\ [][(calls' = calls + 1 /\ obs'.engine /\ obs'.handed.slots # 0
             /\ mem.dl_state = s_alloc.dl_state /\ s_alloc.matrices_cached
             /\ <<s_alloc.screen_w, s_alloc.screen_h>> # mem.screen) =>
            /\ obs'.handed.slots = 14
            /\ s_alloc'.matrices_cached
            /\ s_alloc'.proj_mtx_addr = obs'.handed.addr
            /\ s_alloc'.proj_mtx_addr >= s_alloc.view_mtx_addr + 64
            /\ <<s_alloc'.screen_w, s_alloc'.screen_h>> = mem.screen]_vars

\* After a change of the screen size in the middle of a frame a second pair
\* is cached behind the first pair and its vertices, and a third call has
\* put its vertices behind that.
C32_Witness ==
    /\ calls = 3
    /\ g_billboard_frame_count = 1
    /\ s_alloc.matrices_cached
    /\ s_alloc.proj_mtx_addr = BILLBOARD_POOL_VRAM + 224
    /\ <<s_alloc.screen_w, s_alloc.screen_h>> = Screen640
    /\ s_alloc.used_slots = 34
    /\ obs.handed.slots = 6

(***************************************************************************)
(* SpecEntries: the entries of the identity cache.  Two sites draw four    *)
(* sprites, two of which share a group id at one site; the program starts  *)
(* fresh or with two entries, the older of them 300 calls old.             *)
(***************************************************************************)
MaxEntryCalls == 2

DEntries ==
    [builds |-> {FALSE},
     sites |-> {"73f17c", "740094"},
     draws |-> {DrawA, DrawB, DrawC, DrawBehind},
     screens |-> {Screen320}, dl_states |-> {TokenA},
     vps |-> {VpIdentity},
     levels |-> {Level(F(60))},
     states |-> {FreshState(GdlMid), FreshState(GdlNull),
                 MidFrameState("73f17c", BaseMem, DrawA, DrawB, StaleRun + 1, GdlMid)}]

InitEntries == InitP(DEntries)

NextEntries ==
    \/ \E site \in DEntries.sites : sssv_hook_billboard(site, MaxEntryCalls)
    \/ GameSetDraw(DEntries)

SpecEntries == InitEntries /\ [][NextEntries]_vars

\* Stamps lie in 1..g_quad_stamp and are unique, keys are non-zero, and the
\* entry written last carries g_quad_stamp.
EntriesStamped ==
    /\ \A k \in DOMAIN g_prev_quads :
          /\ g_prev_quads[k].stamp >= 1
          /\ g_prev_quads[k].stamp <= g_quad_stamp
          /\ k # <<0, 0>>
          /\ \A j \in DOMAIN g_prev_quads :
                g_prev_quads[j].stamp = g_prev_quads[k].stamp => j = k
    /\ (DOMAIN g_prev_quads # {}) =>
          \E k \in DOMAIN g_prev_quads : g_prev_quads[k].stamp = g_quad_stamp

\* C33: between calls every entry of the identity cache has a stamp from 1 to
\* g_quad_stamp, no two entries have the same stamp, a cache that is not empty
\* has an entry with stamp g_quad_stamp, and no key is zero; a call that
\* writes the cache leaves the quantized position of that call as signature
\* of the entry it writes, with the new g_quad_stamp as stamp, and leaves
\* the signatures of the other entries alone; and no call removes a key.
C33_IdentityCache ==
    /\ []EntriesStamped
    /\ [][/\ DOMAIN g_prev_quads \subseteq DOMAIN g_prev_quads'
          /\ (calls' = calls + 1 /\ obs'.engine /\ obs'.reached_cache) =>
                LET gid == trace'.group_id
                    shift == SiteConfig(obs'.site, mem.draw).hash_coord_shift
                IN /\ gid \in DOMAIN g_prev_quads'
                   /\ g_prev_quads'[gid].stamp = g_quad_stamp'
                   /\ g_prev_quads'[gid].sig_x = mem.draw.world_x \div (2 ^ shift)
                   /\ g_prev_quads'[gid].sig_y = mem.draw.world_y \div (2 ^ shift)
                   /\ g_prev_quads'[gid].sig_z = mem.draw.world_z \div (2 ^ shift)
                   /\ \A k \in DOMAIN g_prev_quads \ {gid} :
                         g_prev_quads'[k] = g_prev_quads[k]
          /\ (calls' = calls + 1 /\ ~obs'.reached_cache) =>
                g_prev_quads' = g_prev_quads]_vars

\* Four entries: one more than 300 calls old, one from before the calls, and
\* two written by the two calls made, the last of them carrying g_quad_stamp.
C33_Witness ==
    /\ calls = 2
    /\ Cardinality(DOMAIN g_prev_quads) = 4
    /\ \E k \in DOMAIN g_prev_quads : g_quad_stamp - g_prev_quads[k].stamp > 300
    /\ g_prev_quads[trace.group_id].stamp = g_quad_stamp

(***************************************************************************)
(* SpecSalts: the group ids of the five sites for the same hashed fields.  *)
(* The fields are quantized positions with sprite sizes, and, for every    *)
(* site, a scale for which the mix of the six fields equals the salt of    *)
(* the site (its mixed value is 0 and becomes 1) and a scale for which the *)
(* mix differs from the salt in the lowest bit (its mixed value is 1).     *)
(***************************************************************************)
MaxSaltCalls == 2

\* Scales that make the mix of <<x, 0, -10, 32, 32, scale>> the salt of a site.
MixIsSalt ==
    { <<0, 0, -10, 32, 32, 1408664457>>,      \* 0x6C5E4400
      <<1, 0, -10, 32, 32, 2009391686>>,      \* 0x73F17C00
      <<0, 0, -10, 32, 32, 1409134473>>,      \* 0x73F80000
      <<1, 0, -10, 32, 32, 206268998>>,       \* 0x74009400
      <<1, 0, -10, 32, 32, 1988728390>> }     \* 0x74082000

\* Scales that make it the salt with the lowest bit set.
MixIsSaltPlusOne ==
    { <<0, 0, -10, 32, 32, 141221650>>,
      <<0, 0, -10, 32, 32, 1494742802>>,
      <<0, 0, -10, 32, 32, 135392018>>,
      <<1, 0, -10, 32, 32, 1453790941>>,
      <<0, 0, -10, 32, 32, 1540492050>> }

SaltFields ==
    MixIsSalt \cup MixIsSaltPlusOne
       \cup { <<ShiftRight(a[1], shift), ShiftRight(a[2], shift), ShiftRight(a[3], shift),
                sz[1], sz[2], sz[3]>> :
                 a \in IdPositions, shift \in IdShifts, sz \in IdSizes }

InitSalts == InitP(DIdentity)

NextSalts == \E f \in SaltFields : SaltCall(f, MaxSaltCalls)

SpecSalts == InitSalts /\ [][NextSalts]_vars

\* C34: the salts of the five sites are 0x6C5E4400, 0x73F17C00, 0x73F80000,
\* 0x74009400 and 0x74082000, and for the same six hashed fields the group
\* ids of two different sites differ, also when the id of one of them is the
\* 1 that replaces a mixed value of 0.
C34_SaltsSeparateSites ==
    /\ {SiteConfig(site, mem.draw).hash_salt : site \in HookSites} =
          {<<27742, 17408>>, <<29681, 31744>>, <<29688, 0>>, <<29696, 37888>>,
           <<29704, 8192>>}
    /\ Cardinality(HookSites) = 5
    /\ "ids" \in DOMAIN id_call =>
          \A a \in HookSites, b \in HookSites :
             a # b => id_call.ids[a] # id_call.ids[b]

\* The mix of the fields is the salt of site 740094: its id is the replaced
\* 1, and the other four sites have four other ids.
C34_Witness ==
    /\ "ids" \in DOMAIN id_call
    /\ id_call.fields = <<1, 0, -10, 32, 32, 206268998>>
    /\ id_call.ids["740094"] = <<0, 1>>
    /\ id_call.ids["740820"] = <<8, 46080>>
    /\ Cardinality({id_call.ids[site] : site \in HookSites}) = 5

\* The id of a site is 1 without replacement.
C34_WitnessOne ==
    /\ "ids" \in DOMAIN id_call
    /\ id_call.fields \in MixIsSaltPlusOne
    /\ id_call.ids["6c5e44"] = <<0, 1>>

(***************************************************************************)
(* Suppressions against calls in the six statistics records.               *)
(***************************************************************************)
\* C35, as stated: in each of the six statistics records, the one of the
\* logging hook at 6fa3a4 included, interval_suppresses does not exceed
\* interval_calls between hook calls.
C35_SuppressesWithinCalls ==
    \A site \in AllSites : stats[site].interval_suppresses <= stats[site].interval_calls

\* The same for the five rewrite sites only.
C35_RewriteSitesWithinCalls ==
    \A site \in HookSites : stats[site].interval_suppresses <= stats[site].interval_calls

\* The call at 6fa3a4 that flushed the statistics has counted its suppression
\* into the new interval, which has no call.
C35_Witness ==
    /\ obs.site = "6fa3a4"
    /\ flags["6fa3a4"].disable
    /\ stats["6fa3a4"].last_log_frame = g_billboard_frame_count
    /\ g_billboard_frame_count >= STATS_LOG_INTERVAL
    /\ stats["6fa3a4"].interval_calls = 0
    /\ stats["6fa3a4"].interval_suppresses = 1

(***************************************************************************)
(* SpecMusic: the launcher music through init, set_enabled, update and     *)
(* shutdown in any order, with the launcher shown and hidden in between.   *)
(* The track has three stereo frames, queued two frames at a time.         *)
(***************************************************************************)
ShortTrack == WavFile(3, 2, 48000)

MusicConfig(wav, chunk_frames) ==
    [Config EXCEPT !.wav_path = wav, !.chunk_frames = chunk_frames]

\* The device never refuses a chunk.
NeverFails == kSafetyLimit + 2

DMusic ==
    [builds |-> {FALSE}, sites |-> {"73f17c"}, draws |-> {DrawA},
     screens |-> {Screen320}, dl_states |-> {TokenA}, vps |-> {VpIdentity},
     levels |-> {Level(F(60))}, states |-> {FreshState(GdlMid)},
     launchers |-> [visible : BOOLEAN, game_started : BOOLEAN],
     configs |-> {MusicConfig(ShortTrack, 2)},
     callbacks |-> {AllCallbacks, AllCallbacks \ {"stop_playback"}},
     audios |-> {Audio(ok, base, 100, NeverFails) : ok \in BOOLEAN, base \in {0, 200}},
     volumes |-> {F(1)}]

InitMusic == InitP(DMusic)

NextMusic ==
    \/ launcher_music_init(DMusic)
    \/ \E enabled \in BOOLEAN : launcher_music_set_enabled(enabled)
    \/ launcher_music_update(DMusic)
    \/ launcher_music_shutdown
    \/ LauncherChanges

SpecMusic == InitMusic /\ [][NextMusic]_vars

StartedOk == music_call.start = "ok"

\* The first frame handed to the device by the last call (the cursor itself
\* when nothing was queued).
FirstQueued ==
    IF music_call.chunks = <<>> THEN state.cursor_frames
    ELSE music_call.chunks[1].first

\* start_playback only while not playing, stop_playback only while playing,
\* and the cursor at 0 when playback starts.
StartStopFollowPlaying ==
    /\ music_call.start # "none" => ~music_call.st.playing
    /\ music_call.stop => music_call.st.playing
    /\ StartedOk => state.playing /\ FirstQueued = 0

\* C36: across any sequence of init, set_enabled, update and shutdown, the
\* successful start_playback calls and the stop_playback calls strictly
\* alternate, beginning with a start: start_playback is never invoked while
\* playing is true, stop_playback never while it is false, and cursor_frames
\* is reset to 0 at each successful start.
C36_StartStopAlternate ==
    /\ StartStopFollowPlaying
    /\ StartedOk => music_call.before # "start"
    /\ music_call.stop => music_call.before = "start"

\* A second start in a row: playback was started, shutdown did not stop it,
\* and it is started again.
C36_Witness ==
    /\ StartedOk
    /\ music_call.before = "start"
    /\ ~music_call.st.playing

\* What remains: the two callbacks follow the playing flag, and a stop is
\* always preceded by a start.
C36_StartStopFollowPlaying ==
    /\ StartStopFollowPlaying
    /\ music_call.stop => music_call.before = "start"

\* shutdown() left playback running: the state is reset, the device plays.
C36_WitnessShutdownSkipsStop ==
    /\ music_call.op = "shutdown"
    /\ music_call.st.playing
    /\ ~music_call.stop
    /\ playback = "start"
    /\ ~state.playing
\* An update() made while the music played and the launcher was hidden or
\* the game had started.
UpdateWhilePlayingHidden ==
    /\ music_call.op = "update"
    /\ music_call.st.playing
    /\ ~should_play(music_call.seen)

Stopped == music_call.stop /\ ~state.playing

\* C37: whenever the music is playing and update() is called while the
\* launcher is hidden or the game has started, that update calls
\* stop_playback and clears playing, also after set_enabled(false).
C37_UpdateStopsMusic == UpdateWhilePlayingHidden => Stopped

\* The music plays, the feature is turned off, the launcher is hidden, and
\* update() returns with the music still playing.
C37_Witness ==
    /\ UpdateWhilePlayingHidden
    /\ ~music_call.st.enabled
    /\ callbacks_valid(music_call.st)
    /\ ~music_call.stop
    /\ state.playing
    /\ playback = "start"

\* What remains: the update stops the music when the feature is enabled and
\* all six callbacks are set.
C37_EnabledUpdateStopsMusic ==
    UpdateWhilePlayingHidden /\ music_call.st.enabled /\ callbacks_valid(music_call.st)
        => Stopped

C37_WitnessStopped ==
    /\ UpdateWhilePlayingHidden
    /\ Stopped
    /\ playback = "stop"
(***************************************************************************)
(* SpecMusicLoad: the launcher music with files that load and files that   *)
(* do not, and init called again with another file.                        *)
(***************************************************************************)
\* One frame at twice the output rate: nothing is left after resampling.
HalfFrame == WavFile(1, 2, 96000)

MonoTrack == WavFile(2, 1, 48000)

\* Three output channels: convert_channels has no conversion from stereo.
Surround(wav) == [MusicConfig(wav, 2) EXCEPT !.output_channels = 3]

DMusicLoad ==
    [builds |-> {FALSE}, sites |-> {"73f17c"}, draws |-> {DrawA},
     screens |-> {Screen320}, dl_states |-> {TokenA}, vps |-> {VpIdentity},
     levels |-> {Level(F(60))}, states |-> {FreshState(GdlMid)},
     launchers |-> [visible : BOOLEAN, game_started : {FALSE}],
     configs |-> {MusicConfig(NoPath, 2), MusicConfig(BadFile, 2),
                  MusicConfig(HalfFrame, 2), MusicConfig(ShortTrack, 2),
                  MusicConfig(MonoTrack, 2), Surround(ShortTrack)},
     callbacks |-> {AllCallbacks},
     audios |-> {Audio(ok, 100, 100, NeverFails) : ok \in BOOLEAN},
     volumes |-> {F(1)}]

InitMusicLoad == InitP(DMusicLoad)

NextMusicLoad ==
    \/ launcher_music_init(DMusicLoad)
    \/ \E enabled \in BOOLEAN : launcher_music_set_enabled(enabled)
    \/ launcher_music_update(DMusicLoad)
    \/ launcher_music_shutdown
    \/ LauncherChanges

SpecMusicLoad == InitMusicLoad /\ [][NextMusicLoad]_vars

\* Nothing is loaded or played without an attempt to load.
LoadedAfterAttempt ==
    /\ state.loaded => state.load_attempted /\ state.pcm > 0
    /\ state.playing => state.loaded
    /\ music_call.loads <= 1

\* C38: the music file is loaded at most once between two shutdown() calls:
\* load_wav runs only in an update() that finds no earlier attempt, and the
\* attempt stays recorded until shutdown(); after an attempt that failed no
\* later call loads or starts playback; after one that succeeded the PCM
\* stays as loaded.
C38_LoadedOncePerCycle ==
    /\ []LoadedAfterAttempt
    /\ [][launcher' = launcher =>
            /\ music_call'.loads > 0 =>
                  /\ music_call'.op = "update"
                  /\ ~state.load_attempted /\ ~state.loaded
                  /\ state'.load_attempted
            /\ (state.load_attempted /\ music_call'.op # "shutdown") =>
                  /\ music_call'.loads = 0
                  /\ state'.load_attempted
                  /\ state'.loaded = state.loaded
                  /\ state'.pcm = state.pcm
                  /\ state'.pcm_channels = state.pcm_channels
                  /\ ~state.loaded => music_call'.start = "none" /\ ~state'.playing]_vars

\* An update() that could load and play (enabled, launcher visible, a file
\* that decodes) does nothing because an earlier attempt failed.
C38_Witness ==
    /\ music_call.op = "update"
    /\ music_call.st.enabled
    /\ should_play(music_call.seen)
    /\ music_call.st.load_attempted /\ ~music_call.st.loaded
    /\ music_call.st.config.wav_path = ShortTrack
    /\ music_call.st.config.output_channels = 2
    /\ music_call.loads = 0
    /\ ~state.loaded /\ ~state.playing

\* The attempt that failed, and an update() after a load that succeeded.
C38_WitnessFailed ==
    /\ music_call.op = "update"
    /\ music_call.loads = 1
    /\ state.load_attempted /\ ~state.loaded

C38_WitnessLoaded ==
    /\ music_call.op = "update"
    /\ music_call.st.loaded
    /\ music_call.st.config.wav_path = BadFile
    /\ music_call.start = "ok"
    /\ music_call.loads = 0
    /\ state.pcm = 4
(***************************************************************************)
(* SpecMusicQueue: the queueing loop of update() with a device that takes  *)
(* everything, one that fills up, and one that refuses a chunk; with       *)
(* chunk_frames 0, smaller and larger than the track.                      *)
(***************************************************************************)
DMusicQueue ==
    [builds |-> {FALSE}, sites |-> {"73f17c"}, draws |-> {DrawA},
     screens |-> {Screen320}, dl_states |-> {TokenA}, vps |-> {VpIdentity},
     levels |-> {Level(F(60))}, states |-> {FreshState(GdlMid)},
     launchers |-> [visible : BOOLEAN, game_started : {FALSE}],
     configs |-> {MusicConfig(ShortTrack, 0), MusicConfig(ShortTrack, 2),
                  MusicConfig(MonoTrack, 1024)},
     callbacks |-> {AllCallbacks},
     audios |-> {Audio(TRUE, base, per, fail) :
                    base \in {0, 150, 200}, per \in {0, 30}, fail \in {0, 2, NeverFails}},
     volumes |-> {F(1), Frac(1, 2)}]

InitMusicQueue == InitP(DMusicQueue)

NextMusicQueue ==
    \/ launcher_music_init(DMusicQueue)
    \/ \E enabled \in BOOLEAN : launcher_music_set_enabled(enabled)
    \/ launcher_music_update(DMusicQueue)
    \/ launcher_music_shutdown
    \/ LauncherChanges

SpecMusicQueue == InitMusicQueue /\ [][NextMusicQueue]_vars

\* The frames of the loaded PCM.
TotalFrames(st) == IF st.pcm_channels = 0 THEN 0 ELSE st.pcm \div st.pcm_channels

\* The iterations of the loop in the last call: the times the body ran past
\* the safety check (the entry that only breaks is not one).
Iterations == music_call.entries - (IF music_call.broke THEN 1 ELSE 0)

\* The frame after a chunk, 0 after the last frame of the track.
NextFrame(chunk, total) ==
    IF chunk.first + chunk.frames >= total THEN 0 ELSE chunk.first + chunk.frames

\* C39: every update() ends after at most 129 iterations of its queueing
\* loop, whatever get_queued_ms and queue_audio return and also with
\* chunk_frames = 0; after each call cursor_frames is less than the frames of
\* the loaded PCM; every chunk handed to queue_audio has from 1 to
\* chunk_frames frames, all inside the PCM buffer, and begins where the chunk
\* before it ended, at 0 after the end of the track.
C39_QueueLoopBounded ==
    LET total == TotalFrames(state)
        chunks == music_call.chunks
    IN /\ music_call.returned
       /\ Iterations <= kSafetyLimit + 1
       /\ Len(chunks) <= Iterations
       /\ state.loaded => state.cursor_frames \in 0..(total - 1)
       /\ ~state.loaded => state.cursor_frames = 0 /\ chunks = <<>>
       /\ \A i \in 1..Len(chunks) :
             /\ chunks[i].frames \in 1..music_call.st.config.chunk_frames
             /\ chunks[i].first >= 0
             /\ chunks[i].first + chunks[i].frames <= total
             /\ i > 1 => chunks[i].first = NextFrame(chunks[i - 1], total)
       /\ (chunks # <<>> /\ ~music_call.refused) =>
             state.cursor_frames = NextFrame(chunks[Len(chunks)], total)

\* The device never fills: 129 chunks are queued, the track wrapping again
\* and again, and the 130th entry of the loop ends it.
C39_Witness ==
    /\ music_call.op = "update"
    /\ music_call.broke
    /\ Iterations = 129
    /\ Len(music_call.chunks) = 129
    /\ music_call.chunks[2] = [first |-> 2, frames |-> 1, gain |-> Frac(1, 2)]
    /\ music_call.chunks[3].first = 0

\* chunk_frames = 0: 129 iterations that queue nothing.
C39_WitnessNoChunk ==
    /\ music_call.op = "update"
    /\ music_call.st.config.chunk_frames = 0
    /\ music_call.broke
    /\ Iterations = 129
    /\ music_call.chunks = <<>>
    /\ state.cursor_frames = 0

\* The device refuses the third chunk; the cursor stays where that chunk began.
C39_WitnessRefused ==
    /\ music_call.refused
    /\ Len(music_call.chunks) = 3
    /\ state.cursor_frames = music_call.chunks[3].first
====
